---- MODULE Spec2Model ----
(***************************************************************************)
(* Verification model of hydraa: the multi-provider ProviderManager        *)
(* (skill/src/compute/provider-manager.ts), the container health monitor   *)
(* (heartbeat/monitors/health.ts), the self-healer                         *)
(* (heartbeat/actions/self-heal.ts), the HeartbeatScheduler                *)
(* (skill/src/heartbeat/scheduler.ts), the notifier                        *)
(* (heartbeat/actions/notify.ts), the Akash provider                       *)
(* (skill/src/compute/akash/deployer.ts, wallet.ts, sdl.ts) with its       *)
(* monitor and manifest, the self-hosted provider                          *)
(* (compute/self-hosted/index.ts), the cached storage                      *)
(* (skill/src/storage/index.ts, sqlite-cache.ts) over the relay memory     *)
(* (skill/src/nostr/memory.ts), and the wiring of the heartbeat            *)
(* (skill/src/heartbeat/index.ts).                                         *)
(***************************************************************************)
EXTENDS Integers, Sequences, FiniteSets, TLC

\* ------------------------------------------------------------------------
\* Bounds of the model
\* ------------------------------------------------------------------------

\* largest number of (config, provider) pairs handed to the constructor
MaxProviders == 3

\* priorities are drawn from 1..MaxPriority
MaxPriority == 2

\* deploy()/failover() are called at most this many times in one run
MaxCalls == 2

\* the providerManager handed to the self-healer lists this many providers
MaxHealProviders == 2

\* maxRetries of the self-healer is drawn from 0..MaxRetriesBound
MaxRetriesBound == 2

\* maxFailures of the health monitor is drawn from 1..MaxFailuresBound
MaxFailuresBound == 3

\* heal() is invoked at most this many times beyond maxRetries while no
\* redeploy comes up running
MaxExtraHeals == 2

\* a run of consecutive unhealthy probes is followed this far
MaxRun == 6

\* deploy() of a provider is attempted at most this many times
MaxAttempts == 2

\* Date.now() of the deploy attempts is drawn from 0..MaxMs
MaxMs == 1

\* at most this many writes to the relay are in flight
MaxInFlight == 2

\* at most this many invocations of one job's function are followed at a
\* time
MaxOverlap == 2

\* heal() is invoked at most this many times in one run of overlapping
\* invocations
MaxInvocations == 2

\* the scheduler's clock is followed from 1 to MaxClock
MaxClock == 2

\* a job is followed while at most this many timers fire for it
MaxTimers == 2

\* resolution of the notifier's clock: Date.now() is read in units of
\* 1/UnitsPerMinute minutes
UnitsPerMinute == 2

\* notify() is called at most this many times in one run
MaxNotifies == 3

\* the market returns at most this many bids for a deployment
MaxBids == 3

\* BID_WAIT_MS = 30_000, BID_POLL_MS = 5_000 and the 10_000 ms timeout of
\* the bid query, in units of 5 seconds
BidWait == 6

BidPoll == 1

FetchTimeout == 2

\* ------------------------------------------------------------------------
\* Values
\* ------------------------------------------------------------------------

\* DeploymentConfig values a caller may pass
Configs == {"cfgA", "cfgB"}

NoConfig == "none"

\* what one provider.deploy(config) call does: return a deployment that is
\* running, return one with status failed, or throw
Outcomes == {"running", "failed", "throw"}

\* what provider.status(deployment) may return (or "throw")
StatusResults == {"running", "stopped", "unknown", "throw"}

NoMessage == "none"

NoDeployment ==
  [id |-> 0, creator |-> 0, provider |-> "none", status |-> "none",
   config |-> NoConfig, error |-> NoMessage]

NoError == [kind |-> "none", last |-> NoMessage]

\* names under which jobs are registered (two of those createHeartbeat uses)
JobNames == {"health", "funding"}

\* the async functions handed to register()
JobFns == {"monitor", "action"}

\* schedule expressions handed to register(): one the cron package accepts
\* and one it rejects when the CronJob is constructed
CronExprs == {"*/2 * * * *", "not a cron"}

\* price.amount of a bid as the market's REST endpoint returns it: the
\* decimal string "whole.tenths" of a DecCoin
BidAmounts == [whole : {1, 2}, tenths : {0, 5}]

\* one entry of body.bids: the bidding provider (bids are numbered in the
\* order the endpoint lists them), the price and the state of the bid
ChainBids(n) == [1..n -> [amount : BidAmounts, state : {"open", "closed"}]]

\* no bid was selected
NoBid == [provider |-> 0, gseq |-> "none", oseq |-> "none", price |-> 0,
          providerUri |-> "undefined"]

\* what the market and the chain do during one AkashProvider.deploy():
\* createTx and leaseTx are what the chain client answers to the two
\* signAndBroadcast calls (the broadcast accepted with code 0, rejected, or
\* accepted with a non-zero code),
\* arrive is the first bid query that returns bids of the deployment,
\* trickle whether that query lists the first bid only and the others
\* appear from the next query on,
\* emptyKind how the queries before it end, fetchTime how long one query
\* takes, put what the provider answers to the manifest
NoDeployInputs ==
  [createTx |-> "ok", arrive |-> 1, trickle |-> FALSE, emptyKind |-> "empty",
   fetchTime |-> 0,
   leaseTx |-> "ok", put |-> "ok"]

\* what client.signAndBroadcast does with a transaction: accepted with
\* code 0, the broadcast rejected, or accepted with a non-zero code
TxOutcomes == {"ok", "rejected", "code"}

\* no AkashProvider call is in progress
NoAkashCall ==
  [op |-> "idle", in |-> NoDeployInputs, threw |-> FALSE, status |-> "none",
   error |-> NoMessage, phases |-> <<>>, txs |-> <<>>, polls |-> 0,
   elapsed |-> 0, bid |-> NoBid, puts |-> <<>>,
   metadata |-> [dseq |-> "absent", providerUri |-> "absent",
                 providerAddress |-> 0,
                 gseq |-> "absent", oseq |-> "absent", leaseTxHash |-> "absent"]]

\* the DeploymentConfig objects handed to deploy(): the image and the cpu
\* share; memory is 512Mi and storage 1Gi in each, env is empty, ports and
\* persistentStorage are left out
DeployConfigs == [image : {"agent:1", "agent:2"}, cpu : {"0", "0.5", "1"}]

\* the keys and values of the storage. A key is written as the sequence of
\* its parts between colons: 'state:last-heartbeat' (skill/src/index.ts) and
\* ':note', a key whose type part is empty
StorageKeys == {<<"state", "last-heartbeat">>, <<"", "note">>}

StorageValues == {"v1", "v2"}

\* what get() returns for a key that is not stored
Null == "null"

\* no invocation of a job's function is awaited
NoneInProgress == [ticks |-> 0, runs |-> 0]

\* a heal() that has not been invoked
NotInvoked == [pc |-> "idle", observed |-> 0, attempts |-> 0, k |-> 0]

\* no CachedStorage.set() has just returned
NoSet == [op |-> "none", key |-> <<>>, value |-> "none", threw |-> FALSE]

\* metadata values: a key that is not in the map
Absent == "absent"

\* the metadata maps of a marketplace Deployment that a caller may hand to
\* the provider: each key the provider reads is there or not, and the
\* provider's endpoint may be there as the empty string
AkashMetadata ==
  [dseq : {Absent, "7"}, providerAddress : {Absent, "akash1prov"},
   providerUri : {Absent, "", "https://prov"}, gseq : {Absent, "2"},
   oseq : {Absent, "2"}, containerName : {Absent}]

\* the metadata maps of a direct-host Deployment
SelfHostedMetadata ==
  [dseq : {Absent}, providerAddress : {Absent}, providerUri : {Absent},
   gseq : {Absent}, oseq : {Absent}, containerName : {Absent, "hydraa-agent-7"}]

\* the Deployment objects handed to a provider: the id of a marketplace
\* deployment is "owner/dseq", given here as its parts between slashes
HeldDeployments ==
  [provider : {"akash"}, id : {<<"akash1owner", "7">>, <<"7">>},
   metadata : AkashMetadata]
  \cup [provider : {"self-hosted"}, id : {<<"hydraa-agent-7">>},
        metadata : SelfHostedMetadata]

\* no Deployment is held
NoHeld ==
  [provider |-> "none", id |-> <<>>,
   metadata |-> [dseq |-> Absent, providerAddress |-> Absent,
                 providerUri |-> Absent, gseq |-> Absent, oseq |-> Absent,
                 containerName |-> Absent]]

\* what exists outside the program: the lease and the deployment on the
\* chain, the container on the host
NoRemote == [lease |-> "none", deployment |-> "none", container |-> "none"]

\* no provider call on a held deployment is in progress
NoProvCall ==
  [op |-> "idle", threw |-> FALSE, value |-> "none", message |-> NoMessage,
   txs |-> <<>>, requests |-> <<>>, answer |-> "none",
   preRemote |-> NoRemote]

\* the priorities notify() accepts
Priorities == {"low", "normal", "high"}

\* what can go wrong while an alert is sent: nothing, or nip44Encrypt,
\* signEvent or publish rejects
SendFailures == {"none", "encrypt", "sign", "publish"}

\* no notify() is in progress
NoNotify ==
  [op |-> "idle", priority |-> "none", fails |-> "none", at |-> 0,
   suppressed |-> FALSE, threw |-> FALSE, logged |-> FALSE,
   delivered |-> FALSE, preLastSent |-> [low |-> 0, normal |-> 0]]

\* no scheduler call and no timer tick is in progress
NoSchedCall ==
  [op |-> "idle", name |-> "none", fn |-> "none", outcome |-> "none",
   threw |-> FALSE, invoked |-> 0, preJobs |-> <<>>, preStarted |-> FALSE,
   preActive |-> [n \in JobNames |-> 0],
   status |-> [running |-> FALSE, jobs |-> <<>>]]

\* no manager call is in progress: the last result has been handed to the caller
NoCall ==
  [op |-> "idle", config |-> NoConfig, outs |-> <<>>, destroyThrows |-> FALSE,
   preIndex |-> 0, preDeployment |-> NoDeployment,
   ok |-> TRUE, result |-> NoDeployment, error |-> NoError,
   calls |-> <<>>, emitted |-> <<>>, value |-> "none"]

VARIABLES
  configs,            \* ProviderManager.configs: priorities, sorted
  providers,          \* ProviderManager.providers: provider instances, sorted
  activeIndex,        \* ProviderManager.activeIndex (0-based)
  currentDeployment,  \* ProviderManager.currentDeployment (NoDeployment = null)
  nextId,             \* number of the next deploy()/failover() call; with the
                      \* creating provider it identifies a deployment
  lastOp              \* the last manager call: inputs, provider calls, result

pmVars == <<configs, providers, activeIndex, currentDeployment, nextId, lastOp>>

VARIABLES
  maxFailures,          \* createHealthMonitor: deps.maxFailures
  consecutiveFailures,  \* createHealthMonitor: let consecutiveFailures
  maxRetries,           \* createSelfHealer: deps.maxRetries
  retryCount,           \* createSelfHealer: let retryCount
  lastRun,              \* the last heal() or monitor tick: inputs, calls, result
  probes,               \* results of the last completed probes (at most maxFailures)
  runLen,               \* length of the current run of consecutive unhealthy probes
  runHeals,             \* heal() calls the monitor made during that run
  streak,               \* heal() invocations since a redeploy last came up running
  exhaustedSent,        \* 'max retries exhausted' notifications during the streak
  softFail              \* a deploy returned status failed during the streak

hmVars == <<maxFailures, consecutiveFailures, maxRetries, retryCount, lastRun,
            probes, runLen, runHeals, streak, exhaustedSent, softFail>>

VARIABLES
  jobs,       \* HeartbeatScheduler.jobs: the RegisteredJob records, in
              \* insertion order of the Map
  started,    \* HeartbeatScheduler.started
  active,     \* per job name: the CronJob timers created for it that run
  now,        \* the clock new Date() reads
  lastSched   \* the last scheduler call or timer tick: inputs and result

schedVars == <<jobs, started, active, now, lastSched>>

VARIABLES
  lastSent,    \* createNotifier: lastSent, per rate-limited priority
  dateNow,     \* what Date.now() returns
  notifyLog,   \* the notify() calls so far: time, priority, whether sent
  lastNotify   \* the last notify() call: inputs and result

notifVars == <<lastSent, dateNow, notifyLog, lastNotify>>

VARIABLES
  chainBids,   \* the bids the market lists for the deployment once providers
               \* have bid
  lastAkash    \* the last AkashProvider.deploy(): inputs, steps and result

akashVars == <<chainBids, lastAkash>>

VARIABLES
  held,        \* the Deployment object a caller hands to its provider
  remote,      \* the lease and deployment on the chain, the container on
               \* the host
  lastProv     \* the last provider call on the held deployment and its result

backVars == <<held, remote, lastProv>>

VARIABLES
  clockMs,     \* what Date.now() returns, in milliseconds
  issued       \* the deploy() attempts of the providers so far

createVars == <<clockMs, issued>>

VARIABLES
  hasRelay,    \* CachedStorage.relay is not null
  cacheStore,  \* what the SQLite cache holds for each key
  relayStore,  \* what the relays hold for each key
  relayWrites, \* the relay.set() calls that have not settled
  lastSet      \* the CachedStorage.set() or sync() call that has just returned

storeVars == <<hasRelay, cacheStore, relayStore, relayWrites, lastSet>>

VARIABLES
  inProgress,  \* per job name: the invocations of the job's function that
               \* have not settled, by who awaits them (tickFn or runNow)
  healPc       \* per heal() invocation: the await it is suspended at, the
               \* retry count it observed on entry, its redeploy attempts

stepVars == <<inProgress, healPc>>

\* the variables of the provider calls on existing deployments, of the
\* deploy attempts, of the storage and of the invocations in progress
lifeVars == <<backVars, createVars, storeVars, stepVars>>

\* the variables of the parts other than the manager, monitor and healer
extVars == <<schedVars, notifVars, akashVars, lifeVars>>

\* everything but the scheduler, but the notifier, but the Akash provider's
\* deploy(), but the provider calls on a held deployment
schedRest == <<pmVars, hmVars, notifVars, akashVars, lifeVars>>

notifRest == <<pmVars, hmVars, schedVars, akashVars, lifeVars>>

akashRest == <<pmVars, hmVars, schedVars, notifVars, lifeVars>>

backRest == <<pmVars, hmVars, schedVars, notifVars, akashVars, createVars,
              storeVars, stepVars>>

createRest == <<pmVars, hmVars, schedVars, notifVars, akashVars, backVars,
                storeVars, stepVars>>

storeRest == <<pmVars, hmVars, schedVars, notifVars, akashVars, backVars,
               createVars, stepVars>>

\* everything but the invocations in progress and the scheduler, but the
\* invocations in progress and the healer's retry count
overlapRest == <<pmVars, hmVars, notifVars, akashVars, backVars, createVars,
                 storeVars, healPc>>

healStepRest == <<pmVars, schedVars, notifVars, akashVars, backVars,
                  createVars, storeVars, inProgress,
                  maxFailures, consecutiveFailures, lastRun, probes, runLen,
                  runHeals, streak, exhaustedSent, softFail>>

vars == <<pmVars, hmVars, extVars>>

\* no HeartbeatScheduler exists
NoScheduler ==
  /\ jobs = <<>>
  /\ started = FALSE
  /\ active = [n \in JobNames |-> 0]
  /\ now = 1
  /\ lastSched = NoSchedCall

\* the state after createNotifier(deps), at a time later than the epoch by
\* the longest cooldown or more
NewNotifier ==
  /\ lastSent = [low |-> 0, normal |-> 0]
  /\ dateNow = 5 * UnitsPerMinute
  /\ notifyLog = <<>>
  /\ lastNotify = NoNotify

\* no AkashProvider is deploying
NoAkash ==
  /\ chainBids = <<>>
  /\ lastAkash = NoAkashCall

\* no provider is called on a deployment it made earlier
NoBackend ==
  /\ held = NoHeld
  /\ remote = NoRemote
  /\ lastProv = NoProvCall

\* no provider has attempted a deploy()
NoCreate ==
  /\ clockMs = 0
  /\ issued = <<>>

\* no CachedStorage exists
NoStore ==
  /\ hasRelay = FALSE
  /\ cacheStore = [k \in StorageKeys |-> Null]
  /\ relayStore = [k \in StorageKeys |-> Null]
  /\ relayWrites = <<>>
  /\ lastSet = NoSet

\* no function of a job and no heal() is in progress
NoSteps ==
  /\ inProgress = [n \in JobNames |-> NoneInProgress]
  /\ healPc = [i \in 1..MaxInvocations |-> NotInvoked]

\* none of the parts added last exists
NoLife == NoBackend /\ NoCreate /\ NoStore /\ NoSteps

\* none of the other parts exists (the notifier, which has no life of its
\* own, is left as created)
NoExt == NoScheduler /\ NewNotifier /\ NoAkash /\ NoLife

\* ------------------------------------------------------------------------
\* Providers
\* ------------------------------------------------------------------------

\* ComputeProvider.name of the provider instance p (instances are numbered
\* in the order they are handed to the constructor)
Name(p) == IF p % 2 = 1 THEN "akash" ELSE "self-hosted"

\* message of the error a throwing provider.deploy() raises
ThrownMessage(p) == IF p % 2 = 1 THEN "tx rejected" ELSE "ssh failed"

\* metadata.error of a deployment returned with status failed: the Akash
\* provider sets it, the other backend leaves the key absent
FailedMessage(p) ==
  IF Name(p) = "akash" THEN "No bids received within timeout" ELSE NoMessage

\* the Deployment a provider.deploy(config) call returns when it does not throw
ProviderDeploy(p, config, o, id) ==
  [id |-> id, creator |-> p, provider |-> Name(p),
   status |-> IF o = "running" THEN "running" ELSE "failed",
   config |-> config,
   error |-> IF o = "failed" THEN FailedMessage(p) ELSE NoMessage]

\* ------------------------------------------------------------------------
\* ProviderManager
\* ------------------------------------------------------------------------

\* position (1-based) of pair i after the stable ascending sort by priority
SortRank(prio, i) ==
  1 + Cardinality({j \in 1..Len(prio) :
                     \/ prio[j] < prio[i]
                     \/ prio[j] = prio[i] /\ j < i})

\* the constructor: pairs sorted by priority ascending (Array.sort is stable)
SortedPairs(prio) ==
  [k \in 1..Len(prio) |-> CHOOSE i \in 1..Len(prio) : SortRank(prio, i) = k]

\* getCurrentProvider(): providers[activeIndex]; 0 stands for undefined
getCurrentProvider ==
  IF activeIndex + 1 \in 1..Len(providers) THEN providers[activeIndex + 1] ELSE 0

\* a plausible slip: a deployment returned with status failed is kept
DeploymentFailed_Never(d) == FALSE

\* if (deployment.status === 'failed')
DeploymentFailed(d) == d.status = "failed"

\* a plausible slip: the metadata error of the failed deployment is ignored
FailedStatusError_Default(d) == "Deployment returned failed status"

\* new Error(deployment.metadata['error'] ?? 'Deployment returned failed status')
FailedStatusError(d) ==
  IF d.error = NoMessage THEN "Deployment returned failed status" ELSE d.error

\* `... Last error: ${lastError?.message ?? 'unknown'}`
LastErrorText(lastError) == IF lastError = NoMessage THEN "unknown" ELSE lastError

Call(op, p, config, o) == [op |-> op, provider |-> p, config |-> config, outcome |-> o]

\* the loop of deploy(): for (i = 0; i < providers.length; i++)
RECURSIVE DeployLoop(_, _, _, _, _, _)
DeployLoop(i, config, outs, id, lastError, calls) ==
  IF i >= Len(providers)
  THEN [ok |-> FALSE, idx |-> activeIndex, deployment |-> currentDeployment,
        result |-> NoDeployment,
        error |-> [kind |-> "All providers failed to deploy",
                   last |-> LastErrorText(lastError)],
        calls |-> calls]
  ELSE LET p == providers[i + 1]
           o == outs[p]
           calls2 == Append(calls, Call("deploy", p, config, o))
       IN IF o = "throw"
          THEN DeployLoop(i + 1, config, outs, id, ThrownMessage(p), calls2)
          ELSE LET d == ProviderDeploy(p, config, o, id)
               IN IF DeploymentFailed(d)
                  THEN DeployLoop(i + 1, config, outs, id,
                                  FailedStatusError(d), calls2)
                  ELSE [ok |-> TRUE, idx |-> i, deployment |-> d, result |-> d,
                        error |-> NoError, calls |-> calls2]

\* ProviderManager.deploy(config)
deploy(config, outs) ==
  /\ lastOp = NoCall
  /\ nextId <= MaxCalls
  /\ LET r == DeployLoop(0, config, outs, nextId, NoMessage, <<>>)
     IN /\ activeIndex' = r.idx
        /\ currentDeployment' = r.deployment
        /\ nextId' = nextId + 1
        /\ lastOp' = [op |-> "deploy", config |-> config, outs |-> outs,
                      destroyThrows |-> FALSE,
                      preIndex |-> activeIndex, preDeployment |-> currentDeployment,
                      ok |-> r.ok, result |-> r.result, error |-> r.error,
                      calls |-> r.calls, emitted |-> <<>>, value |-> "none"]
  /\ UNCHANGED <<configs, providers, hmVars, extVars>>

\* a plausible slip: failover starts from priority 0, as deploy() does
CandidateIndex_FromZero(offset) == (offset - 1) % Len(providers)

\* const idx = (this.activeIndex + offset) % this.providers.length
CandidateIndex(offset) == (activeIndex + offset) % Len(providers)

\* a plausible slip: the event names the providers in the wrong order
FailoverEvent_Swapped(previousProvider, p) ==
  [event |-> "failover", from |-> Name(p), to |-> previousProvider]

\* this.emit('failover', previousProvider, provider.name)
FailoverEvent(previousProvider, p) ==
  [event |-> "failover", from |-> previousProvider, to |-> Name(p)]

\* a plausible slip: the loop also reaches offset = providers.length, which
\* is the active provider again
FailoverDone_Inclusive(offset) == offset > Len(providers)

\* the loop condition of failover(), negated: offset < this.providers.length
FailoverDone(offset) == offset >= Len(providers)

\* the candidate loop of failover(): for (offset = 1; offset < providers.length; offset++)
RECURSIVE FailoverLoop(_, _, _, _, _, _, _)
FailoverLoop(offset, config, outs, id, lastError, calls, previousProvider) ==
  IF FailoverDone(offset)
  THEN [ok |-> FALSE, idx |-> activeIndex, deployment |-> currentDeployment,
        result |-> NoDeployment,
        error |-> [kind |-> "Failover exhausted all providers",
                   last |-> LastErrorText(lastError)],
        calls |-> calls, emitted |-> <<>>]
  ELSE LET idx == CandidateIndex(offset)
           p == providers[idx + 1]
           o == outs[p]
           calls2 == Append(calls, Call("deploy", p, config, o))
       IN IF o = "throw"
          THEN FailoverLoop(offset + 1, config, outs, id, ThrownMessage(p),
                            calls2, previousProvider)
          ELSE LET d == ProviderDeploy(p, config, o, id)
               IN IF DeploymentFailed(d)
                  THEN FailoverLoop(offset + 1, config, outs, id,
                                    FailedStatusError(d), calls2, previousProvider)
                  ELSE [ok |-> TRUE, idx |-> idx, deployment |-> d, result |-> d,
                        error |-> NoError, calls |-> calls2,
                        emitted |-> <<FailoverEvent(previousProvider, p)>>]

\* a plausible slip: no try/catch around destroy, a throw ends failover()
FailoverTeardown_Propagates(destroyThrows) ==
  [calls |-> IF currentDeployment # NoDeployment
             THEN <<Call("destroy", getCurrentProvider, currentDeployment.config,
                         IF destroyThrows THEN "throw" ELSE "done")>>
             ELSE <<>>,
   aborted |-> currentDeployment # NoDeployment /\ destroyThrows]

\* the best-effort teardown of failover(): one destroy on the current
\* provider; the empty catch swallows a throw, so failover is never aborted
FailoverTeardown(destroyThrows) ==
  [calls |-> IF currentDeployment # NoDeployment
             THEN <<Call("destroy", getCurrentProvider, currentDeployment.config,
                         IF destroyThrows THEN "throw" ELSE "done")>>
             ELSE <<>>,
   aborted |-> FALSE]

\* ProviderManager.failover()
failover(outs, destroyThrows) ==
  /\ lastOp = NoCall
  /\ nextId <= MaxCalls
  /\ LET config == currentDeployment.config
         r == IF getCurrentProvider = 0
              THEN \* this.getCurrentProvider().name on undefined
                   [ok |-> FALSE, idx |-> activeIndex,
                    deployment |-> currentDeployment, result |-> NoDeployment,
                    error |-> [kind |-> "TypeError", last |-> NoMessage],
                    calls |-> <<>>, emitted |-> <<>>]
              ELSE IF config = NoConfig
              THEN [ok |-> FALSE, idx |-> activeIndex,
                    deployment |-> currentDeployment, result |-> NoDeployment,
                    error |-> [kind |-> "Cannot failover: no deployment config available",
                               last |-> NoMessage],
                    calls |-> <<>>, emitted |-> <<>>]
              ELSE IF FailoverTeardown(destroyThrows).aborted
              THEN [ok |-> FALSE, idx |-> activeIndex,
                    deployment |-> currentDeployment, result |-> NoDeployment,
                    error |-> [kind |-> "destroy failed", last |-> NoMessage],
                    calls |-> FailoverTeardown(destroyThrows).calls,
                    emitted |-> <<>>]
              ELSE FailoverLoop(1, config, outs, nextId, NoMessage,
                                FailoverTeardown(destroyThrows).calls,
                                Name(getCurrentProvider))
     IN /\ activeIndex' = r.idx
        /\ currentDeployment' = r.deployment
        /\ nextId' = nextId + 1
        /\ lastOp' = [op |-> "failover", config |-> config, outs |-> outs,
                      destroyThrows |-> destroyThrows,
                      preIndex |-> activeIndex, preDeployment |-> currentDeployment,
                      ok |-> r.ok, result |-> r.result, error |-> r.error,
                      calls |-> r.calls, emitted |-> r.emitted, value |-> "none"]
  /\ UNCHANGED <<configs, providers, hmVars, extVars>>

\* ProviderManager.getStatus()
getStatus(res) ==
  /\ lastOp = NoCall
  /\ LET noDep == currentDeployment = NoDeployment
         threw == ~noDep /\ res = "throw"
     IN lastOp' = [op |-> "getStatus", config |-> NoConfig,
                   outs |-> <<>>, destroyThrows |-> FALSE,
                   preIndex |-> activeIndex, preDeployment |-> currentDeployment,
                   ok |-> ~threw, result |-> NoDeployment,
                   error |-> IF threw THEN [kind |-> "status failed", last |-> NoMessage]
                             ELSE NoError,
                   calls |-> IF noDep THEN <<>>
                             ELSE <<Call("status", getCurrentProvider,
                                         currentDeployment.config, res)>>,
                   emitted |-> <<>>,
                   value |-> IF noDep THEN "unknown"
                             ELSE IF threw THEN "none" ELSE res]
  /\ UNCHANGED <<configs, providers, activeIndex, currentDeployment, nextId, hmVars, extVars>>

\* ProviderManager.healthCheck()
healthCheck(res) ==
  /\ lastOp = NoCall
  /\ LET noDep == currentDeployment = NoDeployment
         threw == ~noDep /\ res = "throw"
     IN lastOp' = [op |-> "healthCheck", config |-> NoConfig,
                   outs |-> <<>>, destroyThrows |-> FALSE,
                   preIndex |-> activeIndex, preDeployment |-> currentDeployment,
                   ok |-> ~threw, result |-> NoDeployment,
                   error |-> IF threw THEN [kind |-> "healthCheck failed", last |-> NoMessage]
                             ELSE NoError,
                   calls |-> IF noDep THEN <<>>
                             ELSE <<Call("healthCheck", getCurrentProvider,
                                         currentDeployment.config, res)>>,
                   emitted |-> <<>>,
                   value |-> IF noDep THEN "unhealthy: No active deployment"
                             ELSE IF threw THEN "none" ELSE res]
  /\ UNCHANGED <<configs, providers, activeIndex, currentDeployment, nextId, hmVars, extVars>>

\* getCurrentProvider(), called from outside: the provider at the active
\* index, undefined for an empty provider list
getCurrentProviderCall ==
  /\ lastOp = NoCall
  /\ lastOp' = [NoCall EXCEPT !.op = "getCurrentProvider",
                              !.preIndex = activeIndex,
                              !.preDeployment = currentDeployment,
                              !.value = IF getCurrentProvider = 0 THEN "undefined"
                                        ELSE "provider"]
  /\ UNCHANGED <<configs, providers, activeIndex, currentDeployment, nextId,
                 hmVars, extVars>>

\* getDeployment(): return this.currentDeployment
getDeployment ==
  /\ lastOp = NoCall
  /\ lastOp' = [NoCall EXCEPT !.op = "getDeployment",
                              !.preIndex = activeIndex,
                              !.preDeployment = currentDeployment,
                              !.result = currentDeployment]
  /\ UNCHANGED <<configs, providers, activeIndex, currentDeployment, nextId,
                 hmVars, extVars>>

\* a plausible slip: the deployment is forgotten although destroy() threw
AfterDestroy_Always(threw) == NoDeployment

\* await provider.destroy(currentDeployment); this.currentDeployment = null:
\* nothing to do without a deployment, and the assignment is skipped when
\* the provider's destroy() throws
AfterDestroy(threw) ==
  IF currentDeployment = NoDeployment \/ threw THEN currentDeployment
  ELSE NoDeployment

\* ProviderManager.destroy()
destroy(destroyThrows) ==
  /\ lastOp = NoCall
  /\ LET noDep == currentDeployment = NoDeployment
         threw == ~noDep /\ destroyThrows
     IN /\ currentDeployment' = AfterDestroy(threw)
        /\ lastOp' = [op |-> "destroy", config |-> NoConfig,
                      outs |-> <<>>, destroyThrows |-> destroyThrows,
                      preIndex |-> activeIndex, preDeployment |-> currentDeployment,
                      ok |-> ~threw, result |-> NoDeployment,
                      error |-> IF threw THEN [kind |-> "destroy failed", last |-> NoMessage]
                                ELSE NoError,
                      calls |-> IF noDep THEN <<>>
                                ELSE <<Call("destroy", getCurrentProvider,
                                            currentDeployment.config,
                                            IF threw THEN "throw" ELSE "done")>>,
                      emitted |-> <<>>, value |-> "none"]
  /\ UNCHANGED <<configs, providers, activeIndex, nextId, hmVars, extVars>>

\* the promise of the last manager call settles: its value or error is
\* handed to the caller, and the manager is ready for the next call
settle ==
  /\ lastOp # NoCall
  /\ lastOp' = NoCall
  /\ UNCHANGED <<configs, providers, activeIndex, currentDeployment, nextId, hmVars, extVars>>

\* the state after `new ProviderManager(configs, providers)`
InitPM ==
  /\ \E n \in 0..MaxProviders :
       \E prio \in [1..n -> 1..MaxPriority] :
         /\ providers = SortedPairs(prio)
         /\ configs = [k \in 1..n |-> prio[SortedPairs(prio)[k]]]
  /\ activeIndex = 0
  /\ currentDeployment = NoDeployment
  /\ nextId = 1
  /\ lastOp = NoCall

\* ------------------------------------------------------------------------
\* Self-healer (heartbeat/actions/self-heal.ts)
\* ------------------------------------------------------------------------

\* the inputs of a heal() that reads none of them
NoInputs ==
  [primary |-> 0, cfg |-> NoConfig, primaryOut |-> "throw", allThrows |-> FALSE,
   outs |-> [p \in 1..MaxHealProviders |-> "throw"], syncThrows |-> FALSE]

\* inputs that differ only in values heal() never reads are the same input:
\* the values never read are fixed
ReadInputs(in) ==
  LET primaryCalled == in.primary >= 1 /\ in.cfg # NoConfig
      primaryReturned == primaryCalled /\ in.primaryOut # "throw"
      loopCalls == ~primaryReturned /\ ~in.allThrows /\ in.cfg # NoConfig
  IN /\ ~primaryCalled => in.primaryOut = "throw"
     /\ primaryReturned => ~in.allThrows
     /\ ~loopCalls => in.outs = NoInputs.outs
     /\ \A k \in 1..MaxHealProviders :
          (\E j \in 1..(k - 1) : in.outs[j] # "throw") => in.outs[k] = "throw"
     /\ in.syncThrows =>
          \/ primaryReturned
          \/ \E k \in 1..MaxHealProviders : in.outs[k] # "throw"

\* outcome vectors of the failover loop: the deploys throw up to the first
\* one that returns
LoopOutcomes ==
  {NoInputs.outs} \cup
  {[p \in 1..MaxHealProviders |-> IF p = k THEN o ELSE "throw"] :
     k \in 1..MaxHealProviders, o \in Outcomes \ {"throw"}}

\* the inputs heal() is run on, i.e. what the injected providerManager,
\* storage and providers do during one heal(): primary is the result of
\* getPrimaryProvider() (-1: it throws, 0: null, p: provider p), cfg the
\* result of getLastDeploymentConfig(), primaryOut the outcome of the
\* redeploy on the primary, allThrows whether getAllProviders() throws, outs
\* the outcomes of the deploys of the failover loop, syncThrows whether
\* storage.syncFromRelays() rejects
HealCases ==
  {in \in [primary : (-1)..MaxHealProviders, cfg : {NoConfig, "cfgA"},
           primaryOut : Outcomes, allThrows : BOOLEAN,
           outs : LoopOutcomes, syncThrows : BOOLEAN] : ReadInputs(in)}

\* no heal() and no tick is in progress
NoRun ==
  [op |-> "idle", in |-> NoInputs, probe |-> "none", healCalls |-> 0,
   rejected |-> FALSE, attempts |-> <<>>, syncs |-> 0, notifs |-> <<>>,
   preRetry |-> 0, preFailures |-> 0]

\* a plausible slip: the limit is checked with > instead of >=
RetriesExhausted_OffByOne == retryCount > maxRetries

\* if (retryCount >= maxRetries)
RetriesExhausted == retryCount >= maxRetries

\* a plausible slip: no try/catch in syncMemory, a failed sync propagates
syncMemory_Propagates(syncThrows) == [requested |-> 1, threw |-> syncThrows]

\* syncMemory(storage): one storage.syncFromRelays(); a rejection is logged
\* and swallowed
syncMemory(syncThrows) == [requested |-> 1, threw |-> FALSE]

\* notifier.notify(message, priority); n is the number in the message
Notification(kind, priority, n) == [kind |-> kind, priority |-> priority, n |-> n]

Attempt(stage, p, o) == [stage |-> stage, provider |-> p, outcome |-> o]

HealResult(rc, attempts, syncs, notifs) ==
  [retryCount |-> rc, attempts |-> attempts, syncs |-> syncs, notifs |-> notifs]

\* the end of heal(): `Self-heal attempt ${retryCount}/${maxRetries} failed`
HealAllFailed(rc, attempts, syncs) ==
  HealResult(rc, attempts, syncs, <<Notification("attempt failed", "high", rc)>>)

\* for (const provider of providers) { try { ... } catch { continue; } }
RECURSIVE HealFailoverLoop(_, _, _, _, _)
HealFailoverLoop(k, in, rc, attempts, syncs) ==
  IF k > MaxHealProviders
  THEN HealAllFailed(rc, attempts, syncs)
  ELSE IF in.cfg = NoConfig
  THEN HealFailoverLoop(k + 1, in, rc, attempts, syncs)
  ELSE LET o == in.outs[k]
           attempts2 == Append(attempts, Attempt("failover", k, o))
       IN IF o = "throw"
          THEN HealFailoverLoop(k + 1, in, rc, attempts2, syncs)
          ELSE IF syncMemory(in.syncThrows).threw
          THEN HealFailoverLoop(k + 1, in, rc, attempts2,
                                syncs + syncMemory(in.syncThrows).requested)
          ELSE HealResult(0, attempts2,
                          syncs + syncMemory(in.syncThrows).requested,
                          <<Notification("self-healed via failover", "normal", 0)>>)

\* the second try block of heal(): getAllProviders() and the loop
HealFailover(in, rc, attempts, syncs) ==
  IF in.allThrows
  THEN HealAllFailed(rc, attempts, syncs)
  ELSE HealFailoverLoop(1, in, rc, attempts, syncs)

\* the first try block of heal(): redeploy on the primary provider
HealPrimary(in, rc) ==
  IF in.primary = -1 \/ in.primary = 0 \/ in.cfg = NoConfig
  THEN HealFailover(in, rc, <<>>, 0)
  ELSE LET attempts == <<Attempt("primary", in.primary, in.primaryOut)>>
       IN IF in.primaryOut = "throw"
          THEN HealFailover(in, rc, attempts, 0)
          ELSE IF syncMemory(in.syncThrows).threw
          THEN HealFailover(in, rc, attempts, syncMemory(in.syncThrows).requested)
          ELSE HealResult(0, attempts, syncMemory(in.syncThrows).requested,
                          <<Notification("self-healed", "normal", 0)>>)

\* heal(): what one invocation does, given the present retryCount
Heal(in) ==
  IF RetriesExhausted
  THEN HealResult(retryCount, <<>>, 0,
                  <<Notification("max retries exhausted", "high", maxRetries)>>)
  ELSE HealPrimary(in, retryCount + 1)

\* some deploy of the invocation returned a deployment that is running
CameUpRunning(r) ==
  \E i \in 1..Len(r.attempts) : r.attempts[i].outcome = "running"

\* number of notifications of the given kind
CountKind(notifs, kind) ==
  Cardinality({i \in 1..Len(notifs) : notifs[i].kind = kind})

\* the effect of one heal() on the healer and on the bookkeeping of the run
HealApply(in) ==
  LET r == Heal(in)
  IN /\ retryCount' = r.retryCount
     /\ streak' = IF CameUpRunning(r) THEN 0 ELSE streak + 1
     /\ exhaustedSent' =
          IF CameUpRunning(r) THEN 0
          ELSE exhaustedSent + CountKind(r.notifs, "max retries exhausted")
     /\ softFail' =
          IF CameUpRunning(r) THEN FALSE
          ELSE \/ softFail
               \/ \E i \in 1..Len(r.attempts) : r.attempts[i].outcome = "failed"
     /\ UNCHANGED maxRetries

\* SelfHealer.heal(), called directly
heal(in) ==
  /\ lastRun = NoRun
  /\ streak < maxRetries + MaxExtraHeals
  /\ HealApply(in)
  /\ lastRun' = [op |-> "heal", in |-> in, probe |-> "none", healCalls |-> 1,
                 rejected |-> FALSE, attempts |-> Heal(in).attempts,
                 syncs |-> Heal(in).syncs, notifs |-> Heal(in).notifs,
                 preRetry |-> retryCount, preFailures |-> consecutiveFailures]
  /\ UNCHANGED <<maxFailures, consecutiveFailures, probes, runLen, runHeals, pmVars, extVars>>

\* ------------------------------------------------------------------------
\* Health monitor (heartbeat/monitors/health.ts)
\* ------------------------------------------------------------------------

\* a plausible slip: the counter is not reset when heal is triggered
AfterTrigger_NoReset(c) == c

\* consecutiveFailures = 0 before `await selfHealer.heal()`
AfterTrigger(c) == 0

\* a plausible slip: a healthy probe leaves the counter alone
AfterHealthy_NoReset(c) == c

\* if (result.healthy) { consecutiveFailures = 0; return; }
AfterHealthy(c) == 0

\* if (consecutiveFailures >= maxFailures), after the increment
Triggers == consecutiveFailures + 1 >= maxFailures

\* the probe results kept for the record: the last maxFailures of them
Remember(res) ==
  LET all == Append(probes, res)
  IN IF Len(all) > maxFailures THEN Tail(all) ELSE all

\* one tick of the monitor. prov and dep are what getPrimaryProvider() and
\* getActiveDeployment() return ("throw": the call throws), probe is what
\* provider.healthCheck(deployment) does, healRejects whether the injected
\* selfHealer.heal() rejects instead of running the healer above
tick(prov, dep, probe, healRejects, in) ==
  /\ lastRun = NoRun
  /\ runLen < MaxRun
  /\ streak < maxRetries + MaxExtraHeals
  /\ LET absent == prov # "some" \/ dep # "some"
         probed == ~absent
         unhealthy == probed /\ probe = "unhealthy"
         healthy == probed /\ probe = "healthy"
         triggered == unhealthy /\ Triggers
         healed == triggered /\ ~healRejects
     IN /\ consecutiveFailures' =
             IF healthy THEN AfterHealthy(consecutiveFailures)
             ELSE IF triggered THEN AfterTrigger(consecutiveFailures + 1)
             ELSE IF unhealthy THEN consecutiveFailures + 1
             ELSE consecutiveFailures
        /\ probes' = IF healthy \/ unhealthy THEN Remember(probe) ELSE probes
        /\ runLen' = IF healthy THEN 0
                     ELSE IF unhealthy THEN runLen + 1 ELSE runLen
        /\ runHeals' = IF healthy THEN 0
                       ELSE IF triggered THEN runHeals + 1 ELSE runHeals
        /\ IF healed
           THEN HealApply(in)
           ELSE UNCHANGED <<maxRetries, retryCount, streak, exhaustedSent, softFail>>
        /\ lastRun' =
             [op |-> "tick", in |-> IF healed THEN in ELSE NoInputs,
              probe |-> IF probed THEN probe ELSE "skipped",
              healCalls |-> IF triggered THEN 1 ELSE 0,
              rejected |-> \/ prov = "throw"
                           \/ dep = "throw"
                           \/ probed /\ probe = "throw"
                           \/ triggered /\ healRejects,
              attempts |-> IF healed THEN Heal(in).attempts ELSE <<>>,
              syncs |-> IF healed THEN Heal(in).syncs ELSE 0,
              notifs |-> IF healed THEN Heal(in).notifs ELSE <<>>,
              preRetry |-> retryCount, preFailures |-> consecutiveFailures]
  /\ UNCHANGED <<maxFailures, pmVars, extVars>>

\* the promise of the last heal() or tick settles
settleRun ==
  /\ lastRun # NoRun
  /\ lastRun' = NoRun
  /\ UNCHANGED <<maxFailures, consecutiveFailures, maxRetries, retryCount,
                 probes, runLen, runHeals, streak, exhaustedSent, softFail, pmVars, extVars>>

\* no ProviderManager takes part: monitor and healer talk to the injected
\* providerManager, whose answers are inputs
NoManager ==
  /\ configs = <<>>
  /\ providers = <<>>
  /\ activeIndex = 0
  /\ currentDeployment = NoDeployment
  /\ nextId = 1
  /\ lastOp = NoCall

\* the state after createSelfHealer(deps) and createHealthMonitor(deps)
InitHeartbeat ==
  /\ maxFailures \in 1..MaxFailuresBound
  /\ consecutiveFailures = 0
  /\ maxRetries \in 0..MaxRetriesBound
  /\ retryCount = 0
  /\ lastRun = NoRun
  /\ probes = <<>>
  /\ runLen = 0
  /\ runHeals = 0
  /\ streak = 0
  /\ exhaustedSent = 0
  /\ softFail = FALSE

NextHeartbeat ==
  \/ IF RetriesExhausted
     THEN heal(NoInputs)
     ELSE \E in \in HealCases : heal(in)
  \/ \E prov \in {"some", "null", "throw"}, dep \in {"some", "null", "throw"} :
       /\ prov # "some" \/ dep # "some"
       /\ prov = "throw" => dep = "some"
       /\ tick(prov, dep, "healthy", FALSE, NoInputs)
  \/ \E probe \in {"healthy", "unhealthy", "throw"} :
       /\ ~(probe = "unhealthy" /\ Triggers)
       /\ tick("some", "some", probe, FALSE, NoInputs)
  \/ /\ Triggers
     /\ \/ tick("some", "some", "unhealthy", TRUE, NoInputs)
        \/ IF RetriesExhausted
           THEN tick("some", "some", "unhealthy", FALSE, NoInputs)
           ELSE \E in \in HealCases :
                  tick("some", "some", "unhealthy", FALSE, in)
  \/ settleRun

\* a health monitor and a self-healer on the injected providerManager
InitHeal == NoManager /\ InitHeartbeat /\ NoExt

SpecHeal == InitHeal /\ [][NextHeartbeat]_vars

\* no monitor and no healer exist
NoHeartbeat ==
  /\ maxFailures = 1
  /\ consecutiveFailures = 0
  /\ maxRetries = 0
  /\ retryCount = 0
  /\ lastRun = NoRun
  /\ probes = <<>>
  /\ runLen = 0
  /\ runHeals = 0
  /\ streak = 0
  /\ exhaustedSent = 0
  /\ softFail = FALSE

NextPM ==
  \/ \E config \in Configs, outs \in [1..Len(providers) -> Outcomes] :
       deploy(config, outs)
  \/ \E outs \in [1..Len(providers) -> Outcomes], destroyThrows \in BOOLEAN :
       failover(outs, destroyThrows)
  \/ \E res \in StatusResults : getStatus(res)
  \/ \E res \in {"healthy", "unhealthy", "throw"} : healthCheck(res)
  \/ \E destroyThrows \in BOOLEAN : destroy(destroyThrows)
  \/ getCurrentProviderCall
  \/ getDeployment
  \/ settle

\* a ProviderManager on its own
Init == InitPM /\ NoHeartbeat /\ NoExt

Spec == Init /\ [][NextPM]_vars

\* ------------------------------------------------------------------------
\* The heartbeat next to a ProviderManager (skill/src/heartbeat/index.ts)
\* ------------------------------------------------------------------------

\* createHeartbeat(heartbeatConfig, deps) hands deps.providerManager to the
\* monitor and to the healer. Both call getPrimaryProvider(),
\* getActiveDeployment(), getLastDeploymentConfig() and getAllProviders() on
\* it and nothing else; class ProviderManager defines none of the four
\* (calling one on an instance throws), so their answers are inputs here as
\* they are in SpecHeal. The manager's own deploy() and failover() are
\* called by the manager's user.

\* ProviderManager.deploy(config) while the heartbeat is idle
managerDeploy(config, outs) ==
  /\ lastRun = NoRun
  /\ deploy(config, outs)

\* ProviderManager.failover() while the heartbeat is idle
managerFailover(outs, destroyThrows) ==
  /\ lastRun = NoRun
  /\ failover(outs, destroyThrows)

\* one heal() of the healer built by createHeartbeat, the first of a streak
heartbeatHeal(in) ==
  /\ lastOp = NoCall
  /\ streak = 0
  /\ heal(in)

\* one tick of the 'health' job registered by createHeartbeat, outside a run
\* of unhealthy probes
heartbeatTick(prov, dep, probe, in) ==
  /\ lastOp = NoCall
  /\ streak = 0
  /\ runLen = 0
  /\ tick(prov, dep, probe, FALSE, in)

NextWired ==
  \/ \E config \in Configs, outs \in [1..Len(providers) -> Outcomes] :
       managerDeploy(config, outs)
  \/ \E outs \in [1..Len(providers) -> Outcomes], destroyThrows \in BOOLEAN :
       managerFailover(outs, destroyThrows)
  \/ settle
  \/ \E in \in HealCases : heartbeatHeal(in)
  \/ \E prov \in {"some", "null", "throw"}, dep \in {"some", "null", "throw"} :
       /\ prov # "some" \/ dep # "some"
       /\ prov = "throw" => dep = "some"
       /\ heartbeatTick(prov, dep, "healthy", NoInputs)
  \/ \E probe \in {"healthy", "unhealthy", "throw"} :
       /\ ~(probe = "unhealthy" /\ Triggers)
       /\ heartbeatTick("some", "some", probe, NoInputs)
  \/ /\ Triggers
     /\ \E in \in HealCases : heartbeatTick("some", "some", "unhealthy", in)
  \/ settleRun

\* a manager of MaxHealProviders providers and the heartbeat of
\* createHeartbeat({maxHealthFailures: 1, maxSelfHealRetries: 1, ...}, deps)
InitWired ==
  /\ providers = [k \in 1..MaxHealProviders |-> k]
  /\ configs = [k \in 1..MaxHealProviders |-> 1]
  /\ activeIndex = 0
  /\ currentDeployment = NoDeployment
  /\ nextId = 1
  /\ lastOp = NoCall
  /\ InitHeartbeat
  /\ maxFailures = 1
  /\ maxRetries = 1
  /\ NoExt

SpecWired == InitWired /\ [][NextWired]_vars

\* ------------------------------------------------------------------------
\* HeartbeatScheduler (skill/src/heartbeat/scheduler.ts)
\* ------------------------------------------------------------------------

\* the cron package accepts the expression: new CronJob(expr, ...) returns
ValidCron(expr) == expr # "not a cron"

\* a plausible slip: the duplicate check is missing
HasJob_Never(name) == FALSE

\* this.jobs.has(name)
HasJob(name) == \E i \in 1..Len(jobs) : jobs[i].name = name

\* this.jobs.get(name): the position of the job in the Map
JobIndex(name) == CHOOSE i \in 1..Len(jobs) : jobs[i].name = name

\* this.jobs.set(name, job): a new key is appended, an existing key keeps
\* its position and gets the new value
SetJob(js, job) ==
  IF \E i \in 1..Len(js) : js[i].name = job.name
  THEN [i \in 1..Len(js) |-> IF js[i].name = job.name THEN job ELSE js[i]]
  ELSE Append(js, job)

SchedCall(op, name, fn, outcome, threw, invoked) ==
  [op |-> op, name |-> name, fn |-> fn, outcome |-> outcome, threw |-> threw,
   invoked |-> invoked, preJobs |-> jobs, preStarted |-> started,
   preActive |-> active, status |-> NoSchedCall.status]

\* register(name, fn, interval)
register(name, fn, interval) ==
  /\ lastSched = NoSchedCall
  /\ IF HasJob(name)
     THEN /\ jobs' = jobs
          /\ lastSched' = SchedCall("register", name, fn, interval, TRUE, 0)
     ELSE /\ jobs' = SetJob(jobs, [name |-> name, fn |-> fn,
                                   cronExpression |-> interval,
                                   cronJob |-> FALSE, lastRun |-> 0])
          /\ lastSched' = SchedCall("register", name, fn, interval, FALSE, 0)
  /\ UNCHANGED <<started, active, now, schedRest>>

\* the loop of start(): for (const job of this.jobs.values()), job.cronJob =
\* new CronJob(job.cronExpression, tickFn, null, true); the constructor
\* throws on an expression it cannot parse, which ends start()
RECURSIVE StartLoop(_, _, _)
StartLoop(i, js, act) ==
  IF i > Len(js)
  THEN [jobs |-> js, active |-> act, threw |-> FALSE]
  ELSE IF ~ValidCron(js[i].cronExpression)
  THEN [jobs |-> js, active |-> act, threw |-> TRUE]
  ELSE StartLoop(i + 1,
                 [js EXCEPT ![i].cronJob = TRUE],
                 [act EXCEPT ![js[i].name] = @ + 1])

\* start()
start ==
  /\ lastSched = NoSchedCall
  /\ \A n \in JobNames : active[n] < MaxTimers
  /\ LET r == StartLoop(1, jobs, active)
     IN IF started
        THEN /\ UNCHANGED <<jobs, active, started>>
             /\ lastSched' = SchedCall("start", "none", "none", "none", FALSE, 0)
        ELSE /\ jobs' = r.jobs
             /\ active' = r.active
             /\ started' = IF r.threw THEN started ELSE TRUE
             /\ lastSched' = SchedCall("start", "none", "none", "none", r.threw, 0)
  /\ UNCHANGED <<now, schedRest>>

\* stop(): job.cronJob?.stop(); job.cronJob = null for every job
stop ==
  /\ lastSched = NoSchedCall
  /\ jobs' = [i \in 1..Len(jobs) |-> [jobs[i] EXCEPT !.cronJob = FALSE]]
  /\ active' = [n \in JobNames |->
                  IF HasJob(n) /\ jobs[JobIndex(n)].cronJob
                  THEN active[n] - 1 ELSE active[n]]
  /\ started' = FALSE
  /\ lastSched' = SchedCall("stop", "none", "none", "none", FALSE, 0)
  /\ UNCHANGED <<now, schedRest>>

\* a plausible slip: last-run is recorded after the try block, not in finally
TickFn_NoFinally(outcome, prev) ==
  [threw |-> outcome = "throw",
   lastRun |-> IF outcome = "throw" THEN prev ELSE now]

\* tickFn: try { await job.fn() } catch { log } finally { job.lastRun = new Date() }
TickFn(outcome, prev) == [threw |-> FALSE, lastRun |-> now]

\* a timer of the job fires: the cron package calls tickFn
tickJob(name, outcome) ==
  /\ lastSched = NoSchedCall
  /\ HasJob(name)
  /\ active[name] >= 1
  /\ LET i == JobIndex(name)
         r == TickFn(outcome, jobs[i].lastRun)
     IN /\ jobs' = [jobs EXCEPT ![i].lastRun = r.lastRun]
        /\ lastSched' = SchedCall("tick", name, jobs[i].fn, outcome, r.threw, 1)
  /\ UNCHANGED <<started, active, now, schedRest>>

\* a plausible slip: last-run is recorded only when the function succeeded
RunNowFn_NoFinally(outcome, prev) ==
  [threw |-> outcome = "throw",
   lastRun |-> IF outcome = "throw" THEN prev ELSE now]

\* try { await job.fn() } finally { job.lastRun = new Date() }: no catch,
\* the rejection reaches the caller
RunNowFn(outcome, prev) == [threw |-> outcome = "throw", lastRun |-> now]

\* runNow(name)
runNow(name, outcome) ==
  /\ lastSched = NoSchedCall
  /\ IF ~HasJob(name)
     THEN /\ jobs' = jobs
          /\ lastSched' = SchedCall("runNow", name, "none", "none", TRUE, 0)
     ELSE LET i == JobIndex(name)
              r == RunNowFn(outcome, jobs[i].lastRun)
          IN /\ jobs' = [jobs EXCEPT ![i].lastRun = r.lastRun]
             /\ lastSched' = SchedCall("runNow", name, jobs[i].fn, outcome,
                                       r.threw, 1)
  /\ UNCHANGED <<started, active, now, schedRest>>

\* running: job.cronJob?.running ?? false (a CronJob the job refers to was
\* constructed started and has not been stopped)
JobRunning(job) == job.cronJob

\* what getStatus() returns
SchedulerStatus ==
  [running |-> started,
   jobs |-> [i \in 1..Len(jobs) |->
               [name |-> jobs[i].name, running |-> JobRunning(jobs[i]),
                lastRun |-> jobs[i].lastRun,
                nextRun |-> IF jobs[i].cronJob THEN "date" ELSE "null"]]]

\* getStatus()
schedGetStatus ==
  /\ lastSched = NoSchedCall
  /\ lastSched' = [SchedCall("getStatus", "none", "none", "none", FALSE, 0)
                     EXCEPT !.status = SchedulerStatus]
  /\ UNCHANGED <<jobs, started, active, now, schedRest>>

\* time passes
timePasses ==
  /\ lastSched = NoSchedCall
  /\ now < MaxClock
  /\ now' = now + 1
  /\ UNCHANGED <<jobs, started, active, lastSched, schedRest>>

\* the last call returns to its caller
settleSched ==
  /\ lastSched # NoSchedCall
  /\ lastSched' = NoSchedCall
  /\ UNCHANGED <<jobs, started, active, now, schedRest>>

NextSched ==
  \/ \E name \in JobNames, fn \in JobFns, interval \in CronExprs :
       register(name, fn, interval)
  \/ start
  \/ stop
  \/ \E name \in JobNames, outcome \in {"ok", "throw"} : tickJob(name, outcome)
  \/ \E name \in JobNames, outcome \in {"ok", "throw"} : runNow(name, outcome)
  \/ schedGetStatus
  \/ timePasses
  \/ settleSched

\* the state after new HeartbeatScheduler()
InitSched ==
  NoManager /\ NoHeartbeat /\ NoScheduler /\ NewNotifier /\ NoAkash /\ NoLife

SpecSched == InitSched /\ [][NextSched]_vars

\* ------------------------------------------------------------------------
\* Invocations of a job's function in progress (scheduler.ts: tickFn, runNow)
\* ------------------------------------------------------------------------

\* the invocations of the job's function that have been started and have
\* not settled
InFlight(name) == inProgress[name].ticks + inProgress[name].runs

\* a timer of the job fires: the CronJob calls tickFn, which calls job.fn()
\* and awaits it. The CronJob is constructed without waitForCompletion and
\* tickFn looks at no flag, so nothing is asked about earlier invocations
timerFires(name) ==
  /\ lastSched = NoSchedCall
  /\ HasJob(name)
  /\ active[name] >= 1
  /\ InFlight(name) < MaxOverlap
  /\ inProgress' = [inProgress EXCEPT ![name].ticks = @ + 1]
  /\ UNCHANGED <<schedVars, overlapRest>>

\* runNow(name) up to its `await job.fn()`
runNowBegins(name) ==
  /\ lastSched = NoSchedCall
  /\ HasJob(name)
  /\ InFlight(name) < MaxOverlap
  /\ inProgress' = [inProgress EXCEPT ![name].runs = @ + 1]
  /\ UNCHANGED <<schedVars, overlapRest>>

\* the promise of a job.fn() that tickFn awaits settles: catch, finally
tickFnSettles(name, outcome) ==
  /\ lastSched = NoSchedCall
  /\ HasJob(name)
  /\ inProgress[name].ticks >= 1
  /\ inProgress' = [inProgress EXCEPT ![name].ticks = @ - 1]
  /\ jobs' = [jobs EXCEPT ![JobIndex(name)].lastRun =
                TickFn(outcome, jobs[JobIndex(name)].lastRun).lastRun]
  /\ UNCHANGED <<started, active, now, lastSched, overlapRest>>

\* the promise of a job.fn() that runNow awaits settles: finally
runNowSettles(name, outcome) ==
  /\ lastSched = NoSchedCall
  /\ HasJob(name)
  /\ inProgress[name].runs >= 1
  /\ inProgress' = [inProgress EXCEPT ![name].runs = @ - 1]
  /\ jobs' = [jobs EXCEPT ![JobIndex(name)].lastRun =
                RunNowFn(outcome, jobs[JobIndex(name)].lastRun).lastRun]
  /\ UNCHANGED <<started, active, now, lastSched, overlapRest>>

NextOverlap ==
  \/ \E name \in JobNames : timerFires(name)
  \/ \E name \in JobNames : runNowBegins(name)
  \/ \E name \in JobNames, outcome \in {"ok", "throw"} : tickFnSettles(name, outcome)
  \/ \E name \in JobNames, outcome \in {"ok", "throw"} : runNowSettles(name, outcome)
  \/ stop
  \/ start
  \/ timePasses
  \/ settleSched

\* the jobs createHeartbeat registers first, in its order
HeartbeatJobs ==
  <<[name |-> "health", fn |-> "monitor", cronExpression |-> "*/2 * * * *",
     cronJob |-> TRUE, lastRun |-> 0],
    [name |-> "funding", fn |-> "monitor", cronExpression |-> "*/2 * * * *",
     cronJob |-> TRUE, lastRun |-> 0]>>

\* the state after createHeartbeat(...).start(): the jobs are registered and
\* each has its timer
InitOverlap ==
  /\ NoManager /\ NoHeartbeat /\ NewNotifier /\ NoAkash
  /\ NoBackend /\ NoCreate /\ NoStore
  /\ \E n \in 1..2 : jobs = SubSeq(HeartbeatJobs, 1, n)
  /\ started = TRUE
  /\ active = [n \in JobNames |-> IF HasJob(n) THEN 1 ELSE 0]
  /\ now = 1
  /\ lastSched = NoSchedCall
  /\ inProgress = [n \in JobNames |-> NoneInProgress]
  /\ healPc = [i \in 1..MaxInvocations |-> NotInvoked]

SpecOverlap == InitOverlap /\ [][NextOverlap]_vars

\* ------------------------------------------------------------------------
\* heal() step by step (heartbeat/actions/self-heal.ts): an invocation runs
\* from one await to the next without interruption, and other invocations
\* run while it is suspended
\* ------------------------------------------------------------------------

\* a plausible slip: the increment comes after the first await of heal()
\* instead of directly after the limit check
IncrementAt_AfterAwait(point, rc) == IF point = "afterAwait" THEN rc + 1 ELSE rc

\* retryCount++ stands directly after the limit check, before the first
\* await
IncrementAt(point, rc) == IF point = "entry" THEN rc + 1 ELSE rc

\* heal() from its invocation to its first await: the limit check, then
\* either the notification of exhaustion or retryCount++ and
\* `await providerManager.getPrimaryProvider()`
healBegins(i) ==
  /\ healPc[i].pc = "idle"
  /\ \A j \in 1..(i - 1) : healPc[j].pc # "idle"
  /\ IF RetriesExhausted
     THEN /\ healPc' = [healPc EXCEPT ![i] = [pc |-> "gaveUp", observed |-> retryCount,
                                               attempts |-> 0, k |-> 0]]
          /\ UNCHANGED retryCount
     ELSE /\ healPc' = [healPc EXCEPT ![i] = [pc |-> "getPrimary", observed |-> retryCount,
                                               attempts |-> 0, k |-> 0]]
          /\ retryCount' = IncrementAt("entry", retryCount)
  /\ UNCHANGED <<maxRetries, healStepRest>>

\* getPrimaryProvider() and getLastDeploymentConfig() have answered: with a
\* provider and a config heal() calls provider.deploy(config) and awaits it,
\* otherwise (null or a throw) it goes on to `await getAllProviders()`
primaryAnswered(i, answer) ==
  /\ healPc[i].pc = "getPrimary"
  /\ retryCount' = IncrementAt("afterAwait", retryCount)
  /\ healPc' = IF answer = "provider"
               THEN [healPc EXCEPT ![i].pc = "deployPrimary", ![i].attempts = @ + 1]
               ELSE [healPc EXCEPT ![i].pc = "getAll"]
  /\ UNCHANGED <<maxRetries, healStepRest>>

\* getAllProviders() has answered: the loop calls deploy on the first
\* provider; a throw, or a loop that finds no config and calls no deploy,
\* leads to the final notification
allAnswered(i, answer) ==
  /\ healPc[i].pc = "getAll"
  /\ healPc' = IF answer = "providers"
               THEN [healPc EXCEPT ![i].pc = "deployFailover", ![i].k = 1,
                                   ![i].attempts = @ + 1]
               ELSE [healPc EXCEPT ![i].pc = "notify"]
  /\ UNCHANGED <<maxRetries, retryCount, healStepRest>>

\* a provider.deploy(config) has settled: a deployment returned leads to
\* `await syncMemory(storage)`, a throw to the next provider
deployReturns(i, outcome) ==
  /\ healPc[i].pc \in {"deployPrimary", "deployFailover"}
  /\ healPc' =
       IF outcome = "returned" THEN [healPc EXCEPT ![i].pc = "sync"]
       ELSE IF healPc[i].pc = "deployPrimary" THEN [healPc EXCEPT ![i].pc = "getAll"]
       ELSE IF healPc[i].k < MaxHealProviders
       THEN [healPc EXCEPT ![i].k = @ + 1, ![i].attempts = @ + 1]
       ELSE [healPc EXCEPT ![i].pc = "notify"]
  /\ UNCHANGED <<maxRetries, retryCount, healStepRest>>

\* syncMemory(storage) has settled (it never rejects): retryCount = 0, then
\* `await notifier.notify(...)`
syncSettles(i) ==
  /\ healPc[i].pc = "sync"
  /\ retryCount' = 0
  /\ healPc' = [healPc EXCEPT ![i].pc = "notify"]
  /\ UNCHANGED <<maxRetries, healStepRest>>

\* the notification of the invocation has settled: heal() returns
notifySettles(i) ==
  /\ healPc[i].pc \in {"notify", "gaveUp"}
  /\ healPc' = [healPc EXCEPT ![i].pc = "done"]
  /\ UNCHANGED <<maxRetries, retryCount, healStepRest>>

NextHealSteps ==
  \/ \E i \in 1..MaxInvocations : healBegins(i)
  \/ \E i \in 1..MaxInvocations, answer \in {"provider", "none"} :
       primaryAnswered(i, answer)
  \/ \E i \in 1..MaxInvocations, answer \in {"providers", "throw", "no config"} :
       allAnswered(i, answer)
  \/ \E i \in 1..MaxInvocations, outcome \in {"returned", "throw"} :
       deployReturns(i, outcome)
  \/ \E i \in 1..MaxInvocations : syncSettles(i)
  \/ \E i \in 1..MaxInvocations : notifySettles(i)

\* the state after createSelfHealer(deps), the healer at any retry count it
\* can have between invocations
InitHealSteps ==
  /\ NoManager /\ NoScheduler /\ NewNotifier /\ NoAkash
  /\ NoBackend /\ NoCreate /\ NoStore
  /\ inProgress = [n \in JobNames |-> NoneInProgress]
  /\ healPc = [i \in 1..MaxInvocations |-> NotInvoked]
  /\ InitHeartbeat
  /\ maxFailures = 1

SpecHealSteps == InitHealSteps /\ [][NextHealSteps]_vars

\* ------------------------------------------------------------------------
\* Notifier (heartbeat/actions/notify.ts)
\* ------------------------------------------------------------------------

\* a plausible slip: one cooldown of a minute for every priority
Cooldown_OneForAll(priority) == UnitsPerMinute

\* cooldowns[priority]: low 5 * 60 * 1000 ms, normal 60 * 1000 ms, high
\* undefined (0 here, which `if (cooldown)` treats the same)
Cooldown(priority) ==
  IF priority = "low" THEN 5 * UnitsPerMinute
  ELSE IF priority = "normal" THEN UnitsPerMinute
  ELSE 0

\* if (cooldown) { elapsed = Date.now() - (lastSent[priority] ?? 0);
\*                 if (elapsed < cooldown) return; ... }
RateLimited(priority) ==
  /\ Cooldown(priority) # 0
  /\ dateNow - (IF priority \in DOMAIN lastSent THEN lastSent[priority] ELSE 0)
       < Cooldown(priority)

\* a plausible slip: no try/catch around the send
SendAlert_NoCatch(fails) ==
  [threw |-> fails # "none", logged |-> FALSE, delivered |-> fails = "none"]

\* try { nip44Encrypt; signEvent; publish } catch (err) { console.error }
SendAlert(fails) ==
  [threw |-> FALSE, logged |-> fails # "none", delivered |-> fails = "none"]

\* notify(message, priority); fails says which step of the send rejects
notify(priority, fails) ==
  /\ lastNotify = NoNotify
  /\ Len(notifyLog) < MaxNotifies
  /\ LET limited == RateLimited(priority)
         r == SendAlert(fails)
     IN /\ lastSent' =
             IF ~limited /\ Cooldown(priority) # 0
             THEN IF priority \in DOMAIN lastSent
                  THEN [lastSent EXCEPT ![priority] = dateNow]
                  ELSE [q \in DOMAIN lastSent \cup {priority} |->
                          IF q = priority THEN dateNow ELSE lastSent[q]]
             ELSE lastSent
        /\ notifyLog' = Append(notifyLog,
                               [at |-> dateNow, priority |-> priority,
                                sent |-> ~limited])
        /\ lastNotify' =
             [op |-> "notify", priority |-> priority,
              fails |-> IF limited THEN "none" ELSE fails, at |-> dateNow,
              suppressed |-> limited,
              threw |-> ~limited /\ r.threw,
              logged |-> ~limited /\ r.logged,
              delivered |-> ~limited /\ r.delivered,
              preLastSent |-> lastSent]
  /\ UNCHANGED <<dateNow, notifRest>>

\* time passes between two notify() calls (the clock is followed from the
\* first call on, for the length of the longest cooldown)
clockAdvances ==
  /\ lastNotify = NoNotify
  /\ notifyLog # <<>>
  /\ dateNow < 10 * UnitsPerMinute
  /\ dateNow' = dateNow + 1
  /\ UNCHANGED <<lastSent, notifyLog, lastNotify, notifRest>>

\* the promise of the last notify() resolves
settleNotify ==
  /\ lastNotify # NoNotify
  /\ lastNotify' = NoNotify
  /\ UNCHANGED <<lastSent, dateNow, notifyLog, notifRest>>

NextNotify ==
  \/ \E priority \in Priorities :
       IF RateLimited(priority)
       THEN notify(priority, "none")
       ELSE \E fails \in SendFailures : notify(priority, fails)
  \/ clockAdvances
  \/ settleNotify

\* a notifier on its own
InitNotify ==
  NoManager /\ NoHeartbeat /\ NoScheduler /\ NewNotifier /\ NoAkash /\ NoLife

SpecNotify == InitNotify /\ [][NextNotify]_vars

\* ------------------------------------------------------------------------
\* AkashProvider (skill/src/compute/akash/deployer.ts)
\* ------------------------------------------------------------------------

\* parseInt(amount, 10) of the decimal string "whole.tenths": parsing stops
\* at the point
ParseIntAmount(amount) == amount.whole

\* the entries of body.bids whose state is 'open'
OpenBids(listed) == SelectSeq([i \in 1..Len(listed) |->
                                 [provider |-> i, amount |-> listed[i].amount,
                                  state |-> listed[i].state]],
                              LAMBDA b : b.state = "open")

\* fetchBids(): a query that throws or answers non-OK yields [], otherwise
\* the open bids mapped to Bid objects; providerUri is always undefined
fetchBids(answer, listed) ==
  IF answer # "ok"
  THEN <<>>
  ELSE [k \in 1..Len(OpenBids(listed)) |->
          [provider |-> OpenBids(listed)[k].provider,
           gseq |-> "1", oseq |-> "1",
           price |-> ParseIntAmount(OpenBids(listed)[k].amount),
           providerUri |-> "undefined"]]

\* position of bids[i] after bids.sort((a, b) => a.price - b.price), which
\* is stable
BidRank(bids, i) ==
  1 + Cardinality({j \in 1..Len(bids) :
                     \/ bids[j].price < bids[i].price
                     \/ bids[j].price = bids[i].price /\ j < i})

\* bids.sort(...); return bids[0]
CheapestBid(bids) ==
  bids[CHOOSE i \in 1..Len(bids) : BidRank(bids, i) = 1]

\* what query number n of waitForBids() is answered
QueryAnswer(in, n) ==
  IF n >= in.arrive THEN "ok"
  ELSE IF in.emptyKind = "empty" THEN "ok" ELSE in.emptyKind

\* body.bids of query number n: nothing before query number arrive; when
\* the market fills up slowly, query number arrive lists the first bid only
\* and every later query all of them
QueryListed(in, n) ==
  IF n < in.arrive THEN <<>>
  ELSE IF n = in.arrive /\ in.trickle /\ Len(chainBids) > 1
  THEN SubSeq(chainBids, 1, 1)
  ELSE chainBids

\* waitForBids(): while (Date.now() < deadline) { fetchBids; if any, return
\* the cheapest; sleep(BID_POLL_MS) }; t is the time since the deadline was
\* set, n the number of queries made
\* a plausible slip: the deadline itself still counts as before it
BeforeDeadline_Inclusive(t) == t <= BidWait

\* Date.now() < deadline, with deadline = start + BID_WAIT_MS
BeforeDeadline(t) == t < BidWait

RECURSIVE WaitLoop(_, _, _)
WaitLoop(t, n, in) ==
  IF ~BeforeDeadline(t)
  THEN [bid |-> NoBid, polls |-> n, elapsed |-> t]
  ELSE LET bids == fetchBids(QueryAnswer(in, n + 1), QueryListed(in, n + 1))
           t2 == t + in.fetchTime
       IN IF Len(bids) > 0
          THEN [bid |-> CheapestBid(bids), polls |-> n + 1, elapsed |-> t2]
          ELSE WaitLoop(t2 + BidPoll, n + 1, in)

waitForBids(in) == WaitLoop(0, 0, in)

\* bid.providerUri ?? ''
UriOrEmpty(bid) == IF bid.providerUri = "undefined" THEN "" ELSE bid.providerUri

\* sendManifest(providerUri, dseq, sdl): nothing is sent when providerUri is
\* empty; otherwise one PUT, and a rejected fetch or a non-OK answer throws
sendManifest(providerUri, put) ==
  IF providerUri = ""
  THEN [puts |-> <<>>, threw |-> FALSE]
  ELSE [puts |-> <<[url |-> providerUri, answer |-> put]>>, threw |-> put # "ok"]

\* a plausible slip: the result code of the transaction is not looked at
signAndBroadcast_IgnoresCode(outcome) ==
  [threw |-> outcome = "rejected",
   hash |-> IF outcome = "rejected" THEN "none" ELSE "hash"]

\* AkashWallet.signAndBroadcast(msgs, fee): client.signAndBroadcast rejects,
\* or its result has a code other than 0 and an Error is thrown, or the
\* transaction hash is returned
signAndBroadcast(outcome) ==
  [threw |-> outcome # "ok",
   hash |-> IF outcome # "ok" THEN "none" ELSE "hash"]

AkashResult(in, threw, status, error, phases, txs, w, puts, md) ==
  [op |-> "deploy", in |-> in, threw |-> threw, status |-> status,
   error |-> error, phases |-> phases, txs |-> txs, polls |-> w.polls,
   elapsed |-> w.elapsed, bid |-> w.bid, puts |-> puts, metadata |-> md]

\* a plausible slip: the order is closed again when no bid arrived
TransactionsOnNoBid_Closes(create) ==
  Append(create, [msg |-> "MsgCloseDeployment", outcome |-> "ok"])

\* if (!bid) { status = 'failed'; metadata.error = ...; return deployment }:
\* nothing is broadcast after the create-deployment transaction
TransactionsOnNoBid(create) == create

\* deploy(config), from the create-deployment transaction to the return
AkashDeploy(in) ==
  LET none == [bid |-> NoBid, polls |-> 0, elapsed |-> 0]
      md0 == NoAkashCall.metadata
      w == waitForBids(in)
      created == [md0 EXCEPT !.dseq = "Date.now()"]
      md == [dseq |-> "Date.now()",
             providerUri |-> UriOrEmpty(w.bid), providerAddress |-> w.bid.provider,
             gseq |-> w.bid.gseq, oseq |-> w.bid.oseq,
             leaseTxHash |-> signAndBroadcast(in.leaseTx).hash]
      m == sendManifest(UriOrEmpty(w.bid), in.put)
      create == <<[msg |-> "MsgCreateDeployment", outcome |-> in.createTx]>>
      lease == Append(create, [msg |-> "MsgCreateLease", outcome |-> in.leaseTx,
                               provider |-> w.bid.provider])
  IN IF signAndBroadcast(in.createTx).threw
     THEN AkashResult(in, TRUE, "none", NoMessage, <<"SUBMITTING">>,
                      create, none, <<>>, md0)
     ELSE IF w.bid = NoBid
     THEN AkashResult(in, FALSE, "failed", "No bids received within timeout",
                      <<"SUBMITTING", "AWAITING_BIDS", "FAILED">>,
                      TransactionsOnNoBid(create), w, <<>>, created)
     ELSE IF signAndBroadcast(in.leaseTx).threw
     THEN AkashResult(in, TRUE, "none", NoMessage,
                      <<"SUBMITTING", "AWAITING_BIDS", "LEASING">>,
                      lease, w, <<>>, md0)
     ELSE IF m.threw
     THEN AkashResult(in, TRUE, "none", NoMessage,
                      <<"SUBMITTING", "AWAITING_BIDS", "LEASING", "MANIFEST_PUSH">>,
                      lease, w, m.puts, md)
     ELSE AkashResult(in, FALSE, "running", NoMessage,
                      <<"SUBMITTING", "AWAITING_BIDS", "LEASING", "MANIFEST_PUSH",
                        "RUNNING">>,
                      lease, w, m.puts, md)

\* the inputs that are read during deploy(); the others keep their default
ReadDeployInputs(in) ==
  LET w == waitForBids(in)
  IN /\ in.createTx # "ok" =>
          in.arrive = 1 /\ in.fetchTime = 0 /\ in.leaseTx = "ok"
     /\ in.arrive = 1 => in.emptyKind = "empty"
     /\ w.polls < in.arrive => in.arrive = BidWait + 1
     /\ (w.polls < in.arrive \/ Len(chainBids) < 2) => ~in.trickle
     /\ (in.createTx # "ok" \/ w.bid = NoBid) => in.leaseTx = "ok"
     /\ (in.createTx # "ok" \/ w.bid = NoBid \/ in.leaseTx # "ok"
           \/ UriOrEmpty(w.bid) = "") => in.put = "ok"

DeployCases ==
  {in \in [createTx : TxOutcomes, arrive : 1..(BidWait + 1),
           trickle : BOOLEAN,
           emptyKind : {"empty", "http", "throw"}, fetchTime : 0..FetchTimeout,
           leaseTx : TxOutcomes, put : {"ok", "http", "throw"}] :
     ReadDeployInputs(in)}

\* AkashProvider.deploy(config)
akashDeploy(in) ==
  /\ lastAkash = NoAkashCall
  /\ lastAkash' = AkashDeploy(in)
  /\ UNCHANGED <<chainBids, akashRest>>

\* the promise of the last deploy() settles
settleAkash ==
  /\ lastAkash # NoAkashCall
  /\ lastAkash' = NoAkashCall
  /\ UNCHANGED <<chainBids, akashRest>>

NextAkash ==
  \/ /\ lastAkash = NoAkashCall
     /\ \E in \in DeployCases : akashDeploy(in)
  \/ settleAkash

\* an AkashProvider and the bids the market will list for its deployment
InitAkash ==
  /\ NoManager /\ NoHeartbeat /\ NoScheduler /\ NewNotifier /\ NoLife
  /\ chainBids \in UNION {ChainBids(n) : n \in 0..MaxBids}
  /\ lastAkash = NoAkashCall

SpecAkash == InitAkash /\ [][NextAkash]_vars

\* ------------------------------------------------------------------------
\* Provider calls on an existing deployment: AkashProvider
\* (skill/src/compute/akash/deployer.ts) with AkashMonitor
\* (skill/src/compute/akash/sdl.ts), and SelfHostedProvider
\* ------------------------------------------------------------------------

\* !value of a metadata entry: the key is missing or its value is ''
Falsy(v) == v \in {Absent, ""}

\* deployment.metadata[key] ?? '1'
OrOne(v) == IF v = Absent THEN "1" ELSE v

\* what client.signAndBroadcast can answer to a transaction that closes a
\* lease or a deployment: one that is already closed cannot be closed
ChainAnswers(state) ==
  IF state \in {"active", "open"} THEN TxOutcomes ELSE TxOutcomes \ {"ok"}

\* what the LCD endpoint can answer to the lease query of getLeaseStatus():
\* no answer, an answer after the 10 s limit, a non-OK answer, the state of
\* the first lease listed, or no lease with a known state
LeaseAnswers(rem) ==
  {"unreachable", "timeout", "http", "other"}
  \cup (IF rem.lease = "active" THEN {"active", "insufficient_funds"}
        ELSE {"closed"})

\* what the provider can answer to the status request of checkHealth(): no
\* answer, an answer after the 15 s limit, a non-OK answer, a body that is
\* not JSON, one without services, one whose services have no replica
\* available, one with a replica available
HealthAnswers(rem) ==
  {"unreachable", "timeout", "http", "badjson", "noservices", "unavailable"}
  \cup (IF rem.lease = "active" THEN {"available"} ELSE {})

\* what the provider can answer to the logs request of getLogs()
LogAnswers == {"unreachable", "http", "ok"}

\* how a command run over SSH can end: the connection fails, the command
\* exits with a code other than 0, or it exits with 0; a docker command on
\* a container that is absent cannot exit with 0
ExecAnswers(rem) ==
  {"unreachable", "exit"} \cup (IF rem.container = "present" THEN {"ok"} ELSE {})

\* State.Status of a container that docker inspect prints
ContainerStates == {"running", "exited", "dead", "created", "restarting", "paused"}

\* how docker inspect over SSH can end: it fails, or it prints the state of
\* the container, which is there
InspectAnswers(rem) ==
  {"unreachable", "exit"}
  \cup (IF rem.container = "present" THEN ContainerStates ELSE {})

\* exec(command): the promise rejects on a connection error and on an exit
\* code other than 0
exec(answer) == [rejected |-> answer # "ok"]

\* a plausible slip: a failing lease query is not caught
getLeaseStatus_NoCatch(id, answer) ==
  IF Len(id) < 2
  THEN [threw |-> FALSE, value |-> "unknown", requests |-> <<>>]
  ELSE [threw |-> answer \in {"unreachable", "timeout"},
        value |-> IF answer \in {"active", "closed", "insufficient_funds"}
                  THEN answer ELSE "unknown",
        requests |-> <<[to |-> "lcd", owner |-> id[1], dseq |-> id[2]]>>]

\* AkashMonitor.getLeaseStatus(deploymentId): 'unknown' for an id without
\* owner or dseq, for a query that fails or is not OK and for a state other
\* than the three known ones
getLeaseStatus(id, answer) ==
  IF Len(id) < 2
  THEN [threw |-> FALSE, value |-> "unknown", requests |-> <<>>]
  ELSE [threw |-> FALSE,
        value |-> IF answer \in {"active", "closed", "insufficient_funds"}
                  THEN answer ELSE "unknown",
        requests |-> <<[to |-> "lcd", owner |-> id[1], dseq |-> id[2]]>>]

\* AkashProvider.status(deployment): the lease status mapped to a
\* deployment status
AkashStatus(d, answer) ==
  LET ls == getLeaseStatus(d.id, answer)
  IN [threw |-> ls.threw,
      value |-> IF ls.threw THEN "none"
                ELSE CASE ls.value = "active" -> "running"
                       [] ls.value = "closed" -> "stopped"
                       [] ls.value = "insufficient_funds" -> "failed"
                       [] OTHER -> "unknown",
      message |-> NoMessage, requests |-> ls.requests]

\* AkashMonitor.checkHealth(deployment): unhealthy without provider URI or
\* dseq, otherwise one request to the provider; healthy when a service has
\* a replica available; a failing request is caught
checkHealth(md, answer) ==
  IF Falsy(md.providerUri) \/ Falsy(md.dseq)
  THEN [threw |-> FALSE, value |-> "unhealthy",
        message |-> "Missing provider URI or deployment sequence in metadata",
        requests |-> <<>>]
  ELSE [threw |-> FALSE,
        value |-> IF answer = "available" THEN "healthy" ELSE "unhealthy",
        message |-> CASE answer = "available" -> "Container running"
                      [] answer \in {"noservices", "unavailable"} ->
                           "No available replicas"
                      [] answer = "http" -> "Provider returned HTTP"
                      [] OTHER -> "Health check failed",
        requests |-> <<[to |-> md.providerUri, dseq |-> md.dseq,
                        gseq |-> OrOne(md.gseq), oseq |-> OrOne(md.oseq)]>>]

\* AkashProvider.getLogs(deployment): a message without provider URI or
\* dseq, otherwise one request to the provider
AkashGetLogs(md, answer) ==
  IF Falsy(md.providerUri) \/ Falsy(md.dseq)
  THEN [threw |-> FALSE, value |-> "message",
        message |-> "Unable to fetch logs: missing metadata", requests |-> <<>>]
  ELSE [threw |-> FALSE,
        value |-> IF answer = "ok" THEN "lines" ELSE "message",
        message |-> CASE answer = "ok" -> NoMessage
                      [] answer = "http" -> "Provider returned HTTP"
                      [] OTHER -> "Failed to fetch logs",
        requests |-> <<[to |-> md.providerUri, dseq |-> md.dseq,
                        gseq |-> OrOne(md.gseq), oseq |-> OrOne(md.oseq)]>>]

\* the close-lease message of destroy(), if a provider address is there
CloseLeaseMsg(md, answer) ==
  IF Falsy(md.providerAddress) THEN <<>>
  ELSE <<[msg |-> "MsgCloseLease", dseq |-> md.dseq,
          provider |-> md.providerAddress, gseq |-> OrOne(md.gseq),
          oseq |-> OrOne(md.oseq), outcome |-> answer]>>

\* AkashProvider.destroy(deployment): throws without dseq; closes the lease
\* if a provider address is there, then closes the deployment; either
\* transaction failing throws.  A closed deployment has no active lease.
AkashDestroy(md, rem, leaseAnswer, closeAnswer) ==
  LET leaseTx == CloseLeaseMsg(md, leaseAnswer)
      rem1 == IF leaseTx = <<>> THEN rem ELSE [rem EXCEPT !.lease = "closed"]
      closeTx == <<[msg |-> "MsgCloseDeployment", dseq |-> md.dseq,
                    outcome |-> closeAnswer]>>
  IN IF Falsy(md.dseq)
     THEN [threw |-> TRUE, message |-> "Missing dseq in deployment metadata",
           txs |-> <<>>, remote |-> rem]
     ELSE IF leaseTx # <<>> /\ signAndBroadcast(leaseAnswer).threw
     THEN [threw |-> TRUE, message |-> "Transaction failed",
           txs |-> leaseTx, remote |-> rem]
     ELSE IF signAndBroadcast(closeAnswer).threw
     THEN [threw |-> TRUE, message |-> "Transaction failed",
           txs |-> leaseTx \o closeTx, remote |-> rem1]
     ELSE [threw |-> FALSE, message |-> NoMessage,
           txs |-> leaseTx \o closeTx,
           remote |-> [rem EXCEPT !.lease = "closed", !.deployment = "closed"]]

\* SelfHostedProvider.status(deployment): 'unknown' without container name,
\* otherwise docker inspect over SSH; the answer is a container state, or
\* the command fails and 'unknown' is returned
SelfHostedStatus(md, answer) ==
  IF Falsy(md.containerName)
  THEN [threw |-> FALSE, value |-> "unknown", message |-> NoMessage,
        requests |-> <<>>]
  ELSE [threw |-> FALSE,
        value |-> CASE answer = "running" -> "running"
                    [] answer \in {"exited", "dead"} -> "stopped"
                    [] answer \in {"created", "restarting"} -> "deploying"
                    [] OTHER -> "unknown",
        message |-> NoMessage,
        requests |-> <<[to |-> "ssh", cmd |-> "docker inspect",
                        name |-> md.containerName]>>]

\* SelfHostedProvider.healthCheck(deployment): healthy when status() is
\* 'running'
SelfHostedHealthCheck(md, answer) ==
  LET st == SelfHostedStatus(md, answer)
  IN [threw |-> st.threw,
      value |-> IF st.threw THEN "none"
                ELSE IF st.value = "running" THEN "healthy" ELSE "unhealthy",
      message |-> IF st.threw THEN NoMessage
                  ELSE IF st.value = "running" THEN "Container running"
                  ELSE "Container status",
      requests |-> st.requests]

\* SelfHostedProvider.getLogs(deployment): a message without container
\* name, otherwise docker logs over SSH, a failure being caught
SelfHostedGetLogs(md, answer) ==
  IF Falsy(md.containerName)
  THEN [threw |-> FALSE, value |-> "message",
        message |-> "No container name in metadata", requests |-> <<>>]
  ELSE [threw |-> FALSE,
        value |-> IF exec(answer).rejected THEN "message" ELSE "lines",
        message |-> IF exec(answer).rejected THEN "Failed to fetch logs"
                    ELSE NoMessage,
        requests |-> <<[to |-> "ssh", cmd |-> "docker logs",
                        name |-> md.containerName]>>]

\* SelfHostedProvider.destroy(deployment): returns without container name,
\* otherwise docker stop && docker rm over SSH, whose failure rejects
SelfHostedDestroy(md, rem, answer) ==
  IF Falsy(md.containerName)
  THEN [threw |-> FALSE, message |-> NoMessage, requests |-> <<>>,
        remote |-> rem]
  ELSE [threw |-> exec(answer).rejected,
        message |-> IF exec(answer).rejected THEN "SSH command exited"
                    ELSE NoMessage,
        requests |-> <<[to |-> "ssh", cmd |-> "docker stop && docker rm",
                        name |-> md.containerName]>>,
        remote |-> IF exec(answer).rejected THEN rem
                   ELSE [rem EXCEPT !.container = "absent"]]

\* the record of a provider call that sends requests and no transactions;
\* the answer is recorded if a request was made
Queried(op, r, answer) ==
  [op |-> op, threw |-> r.threw, value |-> r.value, message |-> r.message,
   txs |-> <<>>, requests |-> r.requests,
   answer |-> IF r.requests = <<>> THEN "none" ELSE answer,
   preRemote |-> remote]

\* AkashProvider.status(deployment)
akashStatus(answer) ==
  /\ lastProv = NoProvCall
  /\ held.provider = "akash"
  /\ lastProv' = Queried("status", AkashStatus(held, answer), answer)
  /\ UNCHANGED <<held, remote, backRest>>

\* AkashProvider.healthCheck(deployment)
akashHealthCheck(answer) ==
  /\ lastProv = NoProvCall
  /\ held.provider = "akash"
  /\ lastProv' = Queried("healthCheck", checkHealth(held.metadata, answer),
                         answer)
  /\ UNCHANGED <<held, remote, backRest>>

\* AkashProvider.getLogs(deployment)
akashGetLogs(answer) ==
  /\ lastProv = NoProvCall
  /\ held.provider = "akash"
  /\ lastProv' = Queried("getLogs", AkashGetLogs(held.metadata, answer),
                         answer)
  /\ UNCHANGED <<held, remote, backRest>>

\* AkashProvider.destroy(deployment)
akashDestroy(leaseAnswer, closeAnswer) ==
  /\ lastProv = NoProvCall
  /\ held.provider = "akash"
  /\ LET r == AkashDestroy(held.metadata, remote, leaseAnswer, closeAnswer)
     IN /\ \A i \in 1..Len(r.txs) :
             r.txs[i].outcome \in
               ChainAnswers(IF r.txs[i].msg = "MsgCloseLease" THEN remote.lease
                            ELSE remote.deployment)
        /\ Len(r.txs) < 2 => closeAnswer = "ok"
        /\ r.txs = <<>> => leaseAnswer = "ok"
        /\ (Len(r.txs) = 1 /\ r.txs[1].msg = "MsgCloseDeployment")
             => leaseAnswer = "ok"
        /\ remote' = r.remote
        /\ lastProv' = [op |-> "destroy", threw |-> r.threw, value |-> "none",
                        message |-> r.message, txs |-> r.txs,
                        requests |-> <<>>, answer |-> "none",
                        preRemote |-> remote]
  /\ UNCHANGED <<held, backRest>>

\* SelfHostedProvider.status(deployment)
selfHostedStatus(answer) ==
  /\ lastProv = NoProvCall
  /\ held.provider = "self-hosted"
  /\ lastProv' = Queried("status", SelfHostedStatus(held.metadata, answer),
                         answer)
  /\ UNCHANGED <<held, remote, backRest>>

\* SelfHostedProvider.healthCheck(deployment)
selfHostedHealthCheck(answer) ==
  /\ lastProv = NoProvCall
  /\ held.provider = "self-hosted"
  /\ lastProv' = Queried("healthCheck",
                         SelfHostedHealthCheck(held.metadata, answer), answer)
  /\ UNCHANGED <<held, remote, backRest>>

\* SelfHostedProvider.getLogs(deployment)
selfHostedGetLogs(answer) ==
  /\ lastProv = NoProvCall
  /\ held.provider = "self-hosted"
  /\ lastProv' = Queried("getLogs", SelfHostedGetLogs(held.metadata, answer),
                         answer)
  /\ UNCHANGED <<held, remote, backRest>>

\* SelfHostedProvider.destroy(deployment)
selfHostedDestroy(answer) ==
  /\ lastProv = NoProvCall
  /\ held.provider = "self-hosted"
  /\ LET r == SelfHostedDestroy(held.metadata, remote, answer)
     IN /\ remote' = r.remote
        /\ lastProv' = [op |-> "destroy", threw |-> r.threw, value |-> "none",
                        message |-> r.message, txs |-> <<>>,
                        requests |-> r.requests,
                        answer |-> IF r.requests = <<>> THEN "none" ELSE answer,
                        preRemote |-> remote]
  /\ UNCHANGED <<held, backRest>>

\* the promise of the last provider call settles
settleProv ==
  /\ lastProv # NoProvCall
  /\ lastProv' = NoProvCall
  /\ UNCHANGED <<held, remote, backRest>>

NextBackend ==
  \/ \E answer \in LeaseAnswers(remote) : akashStatus(answer)
  \/ \E answer \in HealthAnswers(remote) : akashHealthCheck(answer)
  \/ \E answer \in LogAnswers : akashGetLogs(answer)
  \/ \E leaseAnswer, closeAnswer \in TxOutcomes :
       akashDestroy(leaseAnswer, closeAnswer)
  \/ \E answer \in InspectAnswers(remote) :
       selfHostedStatus(answer)
  \/ \E answer \in InspectAnswers(remote) :
       selfHostedHealthCheck(answer)
  \/ \E answer \in ExecAnswers(remote) : selfHostedGetLogs(answer)
  \/ \E answer \in ExecAnswers(remote) : selfHostedDestroy(answer)
  \/ settleProv

\* a provider is handed a Deployment whose lease and deployment are open on
\* the chain, or whose container is on the host
InitBackend ==
  /\ NoManager /\ NoHeartbeat /\ NoScheduler /\ NewNotifier /\ NoAkash
  /\ NoCreate /\ NoStore /\ NoSteps
  /\ held \in HeldDeployments
  /\ remote = IF held.provider = "akash"
              THEN [lease |-> "active", deployment |-> "open",
                    container |-> "none"]
              ELSE [lease |-> "none", deployment |-> "none",
                    container |-> "present"]
  /\ lastProv = NoProvCall

SpecBackend == InitBackend /\ [][NextBackend]_vars

\* ------------------------------------------------------------------------
\* The identifiers and the manifest of a deploy() attempt: generateSDL
\* (skill/src/compute/akash/sdl.ts), AkashProvider.deploy and
\* SelfHostedProvider.deploy
\* ------------------------------------------------------------------------

\* generateSDL(config): the YAML text, given by the parts of it that are
\* filled in; config.cpu || 0.5 renders a cpu share of 0 as 0.5, and
\* without ports, env and persistent storage the blocks for them are the
\* empty ones
generateSDL(config) ==
  [image |-> config.image,
   env |-> "",
   expose |-> "[]",
   params |-> "{}",
   cpu |-> IF config.cpu = "0" THEN "0.5" ELSE config.cpu,
   memory |-> "512Mi",
   storage |-> "1Gi",
   pricing |-> "10000 uakt"]

\* new Uint8Array(32): thirty-two zero bytes, the digest of no text
ZeroBytes == [zero |-> TRUE, of |-> {}]

\* buildCreateDeploymentMsg(owner, dseq, _sdl): the manifest text is not
\* used, the version is the placeholder
buildCreateDeploymentMsg(owner, dseq, sdl) ==
  [typeUrl |-> "MsgCreateDeployment", owner |-> owner, dseq |-> dseq,
   version |-> ZeroBytes, deposit |-> "5000000 uakt"]

\* no message is built
NoMsg ==
  [typeUrl |-> "none", owner |-> "none", dseq |-> 0, version |-> ZeroBytes,
   deposit |-> "none"]

\* the record of a deploy() attempt: the clock reading, the config, the
\* identifier chosen, the create-deployment message and how the call ended
DeployAttempt(backend, config, id, msg, outcome) ==
  [backend |-> backend, at |-> clockMs, config |-> config, id |-> id,
   msg |-> msg, outcome |-> outcome]

\* AkashProvider.deploy(config): the manifest is rendered, dseq is
\* Date.now().toString(), the create-deployment message is built and
\* broadcast; the steps after it are those of AkashDeploy, and how they end
\* is an input
akashDeployAttempt(config, outcome) ==
  /\ Len(issued) < MaxAttempts
  /\ LET sdl == generateSDL(config)
         dseq == clockMs
         createMsg == buildCreateDeploymentMsg("akash1owner", dseq, sdl)
     IN issued' = Append(issued, DeployAttempt("akash", config, dseq, createMsg,
                                          outcome))
  /\ UNCHANGED <<clockMs, createRest>>

\* SelfHostedProvider.deploy(config): the container is named
\* hydraa-agent-<Date.now()>, the docker command is run over SSH, and the
\* call rejects if the command fails
selfHostedDeploy(config, answer) ==
  /\ Len(issued) < MaxAttempts
  /\ LET containerName == clockMs
     IN issued' = Append(issued,
                         DeployAttempt("self-hosted", config, containerName, NoMsg,
                                  IF exec(answer).rejected THEN "throw"
                                  ELSE "running"))
  /\ UNCHANGED <<clockMs, createRest>>

\* a millisecond passes
millisecondPasses ==
  /\ clockMs < MaxMs
  /\ clockMs' = clockMs + 1
  /\ UNCHANGED <<issued, createRest>>

NextCreate ==
  \/ \E config \in DeployConfigs, outcome \in {"running", "failed", "throw"} :
       akashDeployAttempt(config, outcome)
  \/ \E config \in DeployConfigs, answer \in {"ok", "unreachable", "exit"} :
       selfHostedDeploy(config, answer)
  \/ millisecondPasses

\* the providers before their first deploy()
InitCreate ==
  /\ NoManager /\ NoHeartbeat /\ NoScheduler /\ NewNotifier /\ NoAkash
  /\ NoBackend /\ NoStore /\ NoSteps
  /\ clockMs = 0
  /\ issued = <<>>

SpecCreate == InitCreate /\ [][NextCreate]_vars

\* ------------------------------------------------------------------------
\* CachedStorage (skill/src/storage/index.ts) over the SQLite cache and the
\* relay storage (skill/src/storage/sqlite-cache.ts)
\* ------------------------------------------------------------------------

\* the sequence without its element at place i
RemoveAt(seq, i) == SubSeq(seq, 1, i - 1) \o SubSeq(seq, i + 1, Len(seq))

\* await this.cache.set(key, value, metadata): INSERT OR REPLACE, unless
\* the database throws
CacheAfterSet(key, value, cacheThrows) ==
  IF cacheThrows THEN cacheStore ELSE [cacheStore EXCEPT ![key] = value]

\* this.relay.set(key, value, metadata).catch(...): the call is started and
\* not awaited; without a relay, and after a throwing cache write, no call
\* is started
RelayAfterSet(key, value, cacheThrows) ==
  IF hasRelay /\ ~cacheThrows
  THEN Append(relayWrites, [key |-> key, value |-> value])
  ELSE relayWrites

\* CachedStorage.set(key, value): the cache is written and awaited, the
\* relay write is started, and the call returns
set(key, value, cacheThrows) ==
  /\ lastSet = NoSet
  /\ Len(relayWrites) < MaxInFlight
  /\ cacheStore' = CacheAfterSet(key, value, cacheThrows)
  /\ relayWrites' = RelayAfterSet(key, value, cacheThrows)
  /\ lastSet' = [op |-> "set", key |-> key, value |-> value, threw |-> cacheThrows]
  /\ UNCHANGED <<hasRelay, relayStore, storeRest>>

\* NostrRelayStorage.set resolves: the relays hold the value
relayWriteLands(i) ==
  /\ i \in 1..Len(relayWrites)
  /\ relayStore' = [relayStore EXCEPT ![relayWrites[i].key] = relayWrites[i].value]
  /\ relayWrites' = RemoveAt(relayWrites, i)
  /\ UNCHANGED <<hasRelay, cacheStore, lastSet, storeRest>>

\* NostrRelayStorage.set rejects: the catch handler logs the error
relayWriteFails(i) ==
  /\ i \in 1..Len(relayWrites)
  /\ relayWrites' = RemoveAt(relayWrites, i)
  /\ UNCHANGED <<hasRelay, cacheStore, relayStore, lastSet, storeRest>>

\* CachedStorage.get(key): the cached value if there is one, otherwise the
\* relay's value, which is written to the cache if there is one
get(key) ==
  /\ lastSet = NoSet
  /\ cacheStore' =
       IF cacheStore[key] = Null /\ hasRelay /\ relayStore[key] # Null
       THEN [cacheStore EXCEPT ![key] = relayStore[key]]
       ELSE cacheStore
  /\ UNCHANGED <<hasRelay, relayStore, relayWrites, lastSet, storeRest>>

\* the empty string, as the sequence of its parts between colons
EmptyString == <<"">>

\* parseKey(key): the part before the first colon and the rest; a key
\* without a colon is all type
parseKey(key) ==
  IF Len(key) = 1
  THEN [type |-> key[1], subkey |-> EmptyString]
  ELSE [type |-> key[1], subkey |-> Tail(key)]

\* buildDTag(type, key): `hydraa:${type}:${key}`
buildDTag(type, key) == <<"hydraa", type>> \o key

\* the d-tag of the event NostrRelayStorage.set(key, ...) publishes
DTagOf(key) == buildDTag(parseKey(key).type, parseKey(key).subkey)

\* dtag.startsWith(`hydraa:${type}:`)
StartsWithPrefix(dtag, type) ==
  /\ Len(dtag) >= 3
  /\ dtag[1] = "hydraa"
  /\ dtag[2] = type

\* parseDTag(dtag): parts[1] and the parts after it joined by colons
parseDTag(dtag) == [type |-> dtag[2], key |-> Tail(Tail(dtag))]

\* NostrMemory.list(type): the events of the author whose d-tag starts with
\* `hydraa:${type}:`, as {key, value} with the key parseDTag gives
MemoryList(type) ==
  {[key |-> parseDTag(DTagOf(k)).key, value |-> relayStore[k]] :
     k \in {k2 \in StorageKeys : /\ relayStore[k2] # Null
                                 /\ StartsWithPrefix(DTagOf(k2), type)}}

\* NostrRelayStorage.list(prefix): memory.list(parseKey(prefix).type), each
\* entry under the key `${type}:${entry.key}`
RelayList(prefix) ==
  {[key |-> <<parseKey(prefix).type>> \o e.key, value |-> e.value] :
     e \in MemoryList(parseKey(prefix).type)}

\* SqliteCacheStorage.sync(relayStorage): INSERT OR REPLACE of every entry
\* of relayStorage.list('')
CacheAfterSync ==
  [k \in StorageKeys |->
     IF \E e \in RelayList(EmptyString) : e.key = k
     THEN (CHOOSE e \in RelayList(EmptyString) : e.key = k).value
     ELSE cacheStore[k]]

\* CachedStorage.sync(): cache.sync(relay) when there is a relay; a query
\* of the relays that throws rejects the call before the cache is written
sync(queryThrows) ==
  /\ lastSet = NoSet
  /\ cacheStore' = IF hasRelay /\ ~queryThrows THEN CacheAfterSync ELSE cacheStore
  /\ lastSet' = [op |-> "sync", key |-> <<>>, value |-> "none",
                 threw |-> hasRelay /\ queryThrows]
  /\ UNCHANGED <<hasRelay, relayStore, relayWrites, storeRest>>

\* the caller of set() or sync() goes on
settleSet ==
  /\ lastSet # NoSet
  /\ lastSet' = NoSet
  /\ UNCHANGED <<hasRelay, cacheStore, relayStore, relayWrites, storeRest>>

NextStore ==
  \/ \E key \in StorageKeys, value \in StorageValues, cacheThrows \in BOOLEAN :
       set(key, value, cacheThrows)
  \/ \E i \in 1..MaxInFlight : relayWriteLands(i)
  \/ \E i \in 1..MaxInFlight : relayWriteFails(i)
  \/ \E key \in StorageKeys : get(key)
  \/ \E queryThrows \in BOOLEAN : sync(queryThrows)
  \/ settleSet

\* the state after createStorage(opts), with or without relay backing: the
\* cache is new, the relays may hold values of an earlier run
InitStore ==
  /\ NoManager /\ NoHeartbeat /\ NoScheduler /\ NewNotifier /\ NoAkash
  /\ NoBackend /\ NoCreate /\ NoSteps
  /\ hasRelay \in BOOLEAN
  /\ cacheStore = [k \in StorageKeys |-> Null]
  /\ relayStore \in [StorageKeys -> {Null} \cup StorageValues]
  /\ hasRelay = FALSE => relayStore = [k \in StorageKeys |-> Null]
  /\ relayWrites = <<>>
  /\ lastSet = NoSet

SpecStore == InitStore /\ [][NextStore]_vars

\* ------------------------------------------------------------------------
\* Properties of ProviderManager, stated for Spec
\* ------------------------------------------------------------------------

\* the provider.deploy() calls of the last manager call, in order
DeployCalls == SelectSeq(lastOp.calls, LAMBDA c : c.op = "deploy")

\* the provider.destroy() calls of the last manager call
DestroyCalls == SelectSeq(lastOp.calls, LAMBDA c : c.op = "destroy")

\* the provider failover() tries as its j-th candidate (j = 1..N-1)
Candidate(j) == providers[((lastOp.preIndex + j) % Len(providers)) + 1]

\* C1: deploy(config) tries the providers in ascending priority order; if
\* providers 1..k-1 fail (throw or return status failed) and provider k
\* succeeds, deploy returns provider k's deployment, the active index is
\* k-1, the active deployment is that deployment and no provider after k
\* is invoked.
C1_DeployFirstSuccess ==
  lastOp.op = "deploy" =>
    \A k \in 1..Len(providers) :
      (/\ \A j \in 1..(k - 1) : lastOp.outs[providers[j]] # "running"
       /\ lastOp.outs[providers[k]] = "running")
      => /\ lastOp.ok
         /\ lastOp.result.creator = providers[k]
         /\ lastOp.result.provider = Name(providers[k])
         /\ lastOp.result.status = "running"
         /\ lastOp.result.config = lastOp.config
         /\ lastOp.result.id = nextId - 1
         /\ activeIndex = k - 1
         /\ currentDeployment = lastOp.result
         /\ Len(lastOp.calls) = k
         /\ \A j \in 1..k : /\ lastOp.calls[j].op = "deploy"
                            /\ lastOp.calls[j].provider = providers[j]
                            /\ lastOp.calls[j].config = lastOp.config
         /\ \A j \in 1..(k - 1) : configs[j] <= configs[j + 1]

\* C1 witness: the first two of three providers failed (one by throwing,
\* one by a failed status), the third deployed, and the manager held
\* another deployment before
C1_Witness ==
  /\ lastOp.op = "deploy"
  /\ Len(providers) = 3
  /\ providers[1] # 1
  /\ lastOp.outs[providers[1]] = "throw"
  /\ lastOp.outs[providers[2]] = "failed"
  /\ lastOp.outs[providers[3]] = "running"
  /\ lastOp.preDeployment # NoDeployment
  /\ activeIndex = 2

\* C2: if every provider fails, deploy() raises one aggregate error that
\* carries the message of the last failure (the thrown message, or the
\* failed deployment's metadata error, for which the code substitutes a
\* fixed text when the key is absent), and active index and active
\* deployment are as before the call.
C2_DeployExhausted ==
  (/\ lastOp.op = "deploy"
   /\ Len(providers) >= 1
   /\ \A p \in 1..Len(providers) : lastOp.outs[p] # "running")
  => LET pl == providers[Len(providers)]
     IN /\ ~lastOp.ok
        /\ lastOp.result = NoDeployment
        /\ lastOp.error.kind = "All providers failed to deploy"
        /\ lastOp.error.last =
             IF lastOp.outs[pl] = "throw" THEN ThrownMessage(pl)
             ELSE IF FailedMessage(pl) # NoMessage THEN FailedMessage(pl)
             ELSE "Deployment returned failed status"
        /\ activeIndex = lastOp.preIndex
        /\ currentDeployment = lastOp.preDeployment
        /\ Len(lastOp.calls) = Len(providers)

\* C2 witness: all of two or more providers failed, the last one with a
\* failed status carrying a metadata error, while a deployment was active
\* on a provider other than the first
C2_Witness ==
  /\ lastOp.op = "deploy"
  /\ ~lastOp.ok
  /\ Len(providers) >= 2
  /\ lastOp.outs[providers[Len(providers)]] = "failed"
  /\ lastOp.error.last = "No bids received within timeout"
  /\ lastOp.preIndex >= 1
  /\ currentDeployment # NoDeployment

\* C3: failover() starts at the index after the active one and tries each
\* remaining provider in priority order, wrapping around and excluding
\* none, always with the config of the deployment active at the call; with
\* two or more providers the active provider is never the first candidate.
C3_FailoverCandidates ==
  (lastOp.op = "failover" /\ lastOp.preDeployment # NoDeployment)
  => LET n == Len(providers)
     IN /\ \A j \in 1..Len(DeployCalls) :
             /\ j <= n - 1
             /\ DeployCalls[j].provider = Candidate(j)
             /\ DeployCalls[j].config = lastOp.preDeployment.config
        /\ \A j \in 1..(n - 1) :
             (\A i \in 1..(j - 1) : lastOp.outs[Candidate(i)] # "running")
             => Len(DeployCalls) >= j
        /\ n >= 2 => /\ Len(DeployCalls) >= 1
                     /\ DeployCalls[1].provider # providers[lastOp.preIndex + 1]
        /\ \A j \in 1..Len(DeployCalls) :
             DeployCalls[j].provider # providers[lastOp.preIndex + 1]

\* C3 witness: with three providers and the last one active, failover
\* wrapped around to the first and then tried the second, with config cfgB
C3_Witness ==
  /\ lastOp.op = "failover"
  /\ Len(providers) = 3
  /\ lastOp.preIndex = 2
  /\ lastOp.preDeployment.config = "cfgB"
  /\ Len(DeployCalls) = 2
  /\ DeployCalls[1].provider = providers[1]
  /\ DeployCalls[2].provider = providers[2]

\* C4: the teardown in failover() is best-effort: destroy is attempted
\* once on the current provider before any candidate deploy, and a destroy
\* that throws neither prevents the candidates from being tried nor
\* changes the outcome.
C4_TeardownBestEffort ==
  (lastOp.op = "failover" /\ lastOp.preDeployment # NoDeployment)
  => LET n == Len(providers)
         succ == {j \in 1..(n - 1) : lastOp.outs[Candidate(j)] = "running"}
     IN /\ Len(DestroyCalls) = 1
        /\ lastOp.calls[1].op = "destroy"
        /\ lastOp.calls[1].provider = providers[lastOp.preIndex + 1]
        /\ lastOp.calls[1].outcome = (IF lastOp.destroyThrows THEN "throw" ELSE "done")
        /\ lastOp.ok = (succ # {})
        /\ succ # {} =>
             LET j == CHOOSE m \in succ : \A m2 \in succ : m <= m2
             IN /\ Len(DeployCalls) = j
                /\ lastOp.result.creator = Candidate(j)
                /\ currentDeployment = lastOp.result
        /\ succ = {} =>
             /\ Len(DeployCalls) = n - 1
             /\ lastOp.error.kind = "Failover exhausted all providers"

\* C4 witness: destroy threw, and failover still tried two candidates and
\* moved to the second of them
C4_Witness ==
  /\ lastOp.op = "failover"
  /\ lastOp.destroyThrows
  /\ Len(DestroyCalls) = 1
  /\ Len(DeployCalls) = 2
  /\ lastOp.ok
  /\ currentDeployment.id = nextId - 1

\* C5: when a candidate succeeds, failover() sets the active index to that
\* provider and the active deployment to its deployment and emits exactly
\* one failover event naming the previously active and the new provider;
\* when all candidates fail it raises and emits no event.
C5_FailoverEvent ==
  /\ (lastOp.op = "failover" /\ lastOp.ok) =>
       /\ lastOp.result # NoDeployment
       /\ lastOp.result.status # "failed"
       /\ lastOp.result.creator = DeployCalls[Len(DeployCalls)].provider
       /\ providers[activeIndex + 1] = lastOp.result.creator
       /\ currentDeployment = lastOp.result
       /\ lastOp.emitted =
            <<[event |-> "failover",
               from |-> Name(providers[lastOp.preIndex + 1]),
               to |-> Name(lastOp.result.creator)]>>
  /\ (lastOp.op = "failover" /\ ~lastOp.ok) =>
       /\ lastOp.emitted = <<>>
       /\ lastOp.error # NoError
       /\ activeIndex = lastOp.preIndex
       /\ currentDeployment = lastOp.preDeployment
  /\ lastOp.op # "failover" => lastOp.emitted = <<>>

\* C5 witness: a failover from the akash provider to a self-hosted one
\* emitted its event
C5_Witness ==
  /\ lastOp.op = "failover"
  /\ lastOp.ok
  /\ Len(lastOp.emitted) = 1
  /\ lastOp.emitted[1].from = "akash"
  /\ lastOp.emitted[1].to = "self-hosted"
  /\ activeIndex # lastOp.preIndex

\* C5 witness of the other case: every candidate failed
C5_WitnessExhausted ==
  /\ lastOp.op = "failover"
  /\ ~lastOp.ok
  /\ Len(DeployCalls) = 2

\* C6: in every reachable state, for any number of configured providers,
\* the active index points into the provider list and the active
\* deployment, if any, was created by and names the provider at that index.
C6_ActiveIndexValid ==
  /\ activeIndex \in 0..(Len(providers) - 1)
  /\ currentDeployment # NoDeployment =>
       /\ currentDeployment.creator = providers[activeIndex + 1]
       /\ currentDeployment.provider = Name(providers[activeIndex + 1])

\* the same for a manager constructed with at least one provider
ActiveIndexValidNonEmpty ==
  Len(providers) >= 1 => C6_ActiveIndexValid

\* ------------------------------------------------------------------------
\* Properties of the self-healer and the health monitor, stated for SpecHeal
\* ------------------------------------------------------------------------

\* the last run invoked the healer of this repository
HealerRan ==
  \/ lastRun.op = "heal"
  \/ lastRun.op = "tick" /\ lastRun.healCalls = 1 /\ lastRun.notifs # <<>>

\* a config and at least one provider were on offer to the last heal()
CouldRedeploy ==
  /\ lastRun.in.cfg # NoConfig
  /\ lastRun.in.primary >= 1 \/ ~lastRun.in.allThrows

\* the retry limit as C7 states it, for a streak of heal() invocations in
\* which no redeploy came up running
RetryLimit ==
  /\ streak <= maxRetries =>
       /\ retryCount = streak
       /\ exhaustedSent = 0
  /\ streak > maxRetries =>
       /\ retryCount = maxRetries
       /\ exhaustedSent = streak - maxRetries
  /\ (HealerRan /\ streak \in 1..maxRetries /\ CouldRedeploy) =>
       lastRun.attempts # <<>>
  /\ (HealerRan /\ streak > maxRetries) =>
       /\ lastRun.attempts = <<>>
       /\ lastRun.preRetry = maxRetries

\* C7: if heal() is invoked max+1 times and no provider ever succeeds,
\* invocations 1..max make redeploy attempts, invocation max+1 makes none and
\* leaves the retry count at max, exactly one 'max retries exhausted'
\* notification is sent over the max+1 invocations, and no later invocation
\* makes a redeploy attempt.
C7_RetryLimit == RetryLimit

\* the same limit for streaks in which every failing deploy threw: it holds
RetryLimitWhenDeploysThrow == ~softFail => RetryLimit

\* a streak of max+1 invocations with throwing deploys ended in the one
\* 'max retries exhausted' notification
RetryLimitReached ==
  /\ HealerRan
  /\ ~softFail
  /\ maxRetries = 2
  /\ streak = 3
  /\ exhaustedSent = 1
  /\ lastRun.attempts = <<>>

\* C8: whenever the consecutive-failure counter reaches maxFailures the
\* monitor invokes heal() exactly once and the counter is 0 afterward,
\* whether heal() succeeds, fails or throws; a run of m consecutive unhealthy
\* probes triggers exactly floor(m / maxFailures) heal() calls.
C8_HealOncePerThreshold ==
  /\ runHeals = runLen \div maxFailures
  /\ consecutiveFailures = runLen % maxFailures
  /\ (lastRun.op = "tick" /\ lastRun.probe = "unhealthy"
        /\ lastRun.preFailures + 1 >= maxFailures) =>
       /\ lastRun.healCalls = 1
       /\ consecutiveFailures = 0
  /\ (lastRun.op = "tick" /\ lastRun.healCalls = 1) =>
       /\ lastRun.probe = "unhealthy"
       /\ lastRun.preFailures + 1 = maxFailures

\* C8 witness: six unhealthy probes in a row with maxFailures = 3 made two
\* heal() calls, the second of which rejected
C8_Witness ==
  /\ lastRun.op = "tick"
  /\ maxFailures = 3
  /\ runLen = 6
  /\ runHeals = 2
  /\ lastRun.healCalls = 1
  /\ lastRun.rejected
  /\ consecutiveFailures = 0

\* C8 witness of a heal() that failed on all providers
C8_WitnessFailedHeal ==
  /\ lastRun.op = "tick"
  /\ maxFailures = 2
  /\ lastRun.healCalls = 1
  /\ lastRun.notifs # <<>>
  /\ lastRun.notifs[1].kind = "attempt failed"
  /\ consecutiveFailures = 0

\* C9: a healthy probe resets the counter to zero, so a tick invokes heal()
\* only if its probe and the maxFailures-1 probes completed before it were
\* all unhealthy.
C9_HealthyResets ==
  /\ (lastRun.op = "tick" /\ lastRun.probe = "healthy") => consecutiveFailures = 0
  /\ (lastRun.op = "tick" /\ lastRun.healCalls = 1) =>
       /\ Len(probes) = maxFailures
       /\ \A i \in 1..Len(probes) : probes[i] = "unhealthy"

\* C9 witness: a healthy probe arrived when two failures had been counted
C9_Witness ==
  /\ lastRun.op = "tick"
  /\ lastRun.probe = "healthy"
  /\ lastRun.preFailures = 2
  /\ consecutiveFailures = 0
  /\ probes = <<"unhealthy", "unhealthy", "healthy">>

\* C10: when a redeploy succeeds inside heal(), on the current provider or on
\* the first provider that succeeds in the failover loop, the healer resets
\* the retry count to zero, requests one resync, sends one normal-priority
\* 'self-healed' notification and returns without trying a further
\* provider; a failing resync prevents none of this.
C10_HealSuccess ==
  (HealerRan /\ CameUpRunning(lastRun)) =>
    LET n == Len(lastRun.attempts)
    IN /\ lastRun.attempts[n].outcome = "running"
       /\ \A i \in 1..(n - 1) : lastRun.attempts[i].outcome # "running"
       /\ retryCount = 0
       /\ lastRun.syncs = 1
       /\ lastRun.notifs =
            <<[kind |-> IF lastRun.attempts[n].stage = "primary"
                        THEN "self-healed" ELSE "self-healed via failover",
               priority |-> "normal", n |-> 0]>>
       /\ lastRun.rejected = FALSE

\* C10 witness: the second provider of the failover loop came up running
\* after the primary and the first had thrown, the resync failed, and the
\* retry count went from 2 to 0
C10_Witness ==
  /\ HealerRan
  /\ lastRun.in.syncThrows
  /\ Len(lastRun.attempts) = 3
  /\ lastRun.attempts[3].outcome = "running"
  /\ lastRun.attempts[3].stage = "failover"
  /\ lastRun.preRetry = 1
  /\ retryCount = 0

\* the last heal() ran below the retry limit and none of its redeploys came
\* up running
HealAllProvidersFailed ==
  /\ HealerRan
  /\ lastRun.preRetry < maxRetries
  /\ ~CameUpRunning(lastRun)

\* what heal() is to leave behind in that case
HealFailureReported ==
  /\ lastRun.notifs =
       <<[kind |-> "attempt failed", priority |-> "high",
          n |-> lastRun.preRetry + 1]>>
  /\ retryCount = lastRun.preRetry + 1
  /\ lastRun.syncs = 0

\* C11: when, in one heal() below the retry limit, the redeploy on the
\* current provider and on every configured provider fails (by throwing or
\* by returning status failed), the healer sends exactly one high-priority
\* 'attempt N/max failed' notification with N the incremented retry count,
\* sends no 'self-healed' notification and leaves the retry count
\* incremented by one.
C11_HealAllFailed == HealAllProvidersFailed => HealFailureReported

\* the same when every failing redeploy threw: it holds
HealAllFailedWhenDeploysThrow ==
  (/\ HealAllProvidersFailed
   /\ \A i \in 1..Len(lastRun.attempts) : lastRun.attempts[i].outcome = "throw")
  => HealFailureReported

\* the primary and both providers of the loop threw in the second heal() of
\* a streak, which reported 'attempt 2/2 failed'
HealAllFailedReached ==
  /\ HealAllProvidersFailed
  /\ Len(lastRun.attempts) = 3
  /\ \A i \in 1..3 : lastRun.attempts[i].outcome = "throw"
  /\ lastRun.preRetry = 1
  /\ retryCount = 2
  /\ lastRun.notifs[1].n = 2

\* ------------------------------------------------------------------------
\* Properties of HeartbeatScheduler, stated for SpecSched
\* ------------------------------------------------------------------------

\* the job registered under the name before the last call
PreJob(name) ==
  lastSched.preJobs[CHOOSE i \in 1..Len(lastSched.preJobs) :
                      lastSched.preJobs[i].name = name]

HadJob(name) ==
  \E i \in 1..Len(lastSched.preJobs) : lastSched.preJobs[i].name = name

\* the last call left every timer as it was
TimersUntouched ==
  /\ active = lastSched.preActive
  /\ started = lastSched.preStarted
  /\ Len(jobs) = Len(lastSched.preJobs)
  /\ \A i \in 1..Len(jobs) : jobs[i].cronJob = lastSched.preJobs[i].cronJob

\* C12: register(name, ...) raises when a job with that name is already
\* registered, and the rejected call changes nothing: the first job keeps
\* its function, schedule, last-run time and, if the scheduler is started,
\* its running timer.
C12_RegisterDuplicate ==
  (lastSched.op = "register" /\ HadJob(lastSched.name)) =>
    /\ lastSched.threw
    /\ jobs = lastSched.preJobs
    /\ jobs[JobIndex(lastSched.name)].fn = PreJob(lastSched.name).fn
    /\ jobs[JobIndex(lastSched.name)].cronExpression =
         PreJob(lastSched.name).cronExpression
    /\ jobs[JobIndex(lastSched.name)].lastRun = PreJob(lastSched.name).lastRun
    /\ TimersUntouched

\* C12 witness: on a started scheduler a second register() under a name
\* whose job has run and has its timer, with another function and another
\* schedule, was rejected
C12_Witness ==
  /\ lastSched.op = "register"
  /\ HadJob(lastSched.name)
  /\ lastSched.threw
  /\ started
  /\ PreJob(lastSched.name).cronJob
  /\ active[lastSched.name] = 1
  /\ PreJob(lastSched.name).lastRun >= 1
  /\ PreJob(lastSched.name).fn # lastSched.fn
  /\ PreJob(lastSched.name).cronExpression # lastSched.outcome

\* C13: on every scheduled tick the job's function is invoked, an error it
\* raises is caught and not propagated, the job's last-run time is recorded
\* whether the function succeeded or failed, and the failure cancels neither
\* that job's timer, nor another job's timer, nor the scheduler.
C13_TickIsolated ==
  lastSched.op = "tick" =>
    /\ lastSched.invoked = 1
    /\ lastSched.fn = PreJob(lastSched.name).fn
    /\ ~lastSched.threw
    /\ jobs[JobIndex(lastSched.name)].lastRun = now
    /\ TimersUntouched
    /\ active[lastSched.name] >= 1
    /\ \A i \in 1..Len(jobs) :
         jobs[i].name # lastSched.name => jobs[i] = lastSched.preJobs[i]

\* C13 witness: with two jobs on their timers, the function of one that had
\* run before failed at a later time
C13_Witness ==
  /\ lastSched.op = "tick"
  /\ lastSched.outcome = "throw"
  /\ Len(jobs) = 2
  /\ \A n \in JobNames : active[n] = 1
  /\ started
  /\ PreJob(lastSched.name).lastRun = 1
  /\ jobs[JobIndex(lastSched.name)].lastRun = 2

\* C14: stop() cancels the timer of every job and leaves every job
\* registered with its last-run time; after any sequence of start()/stop()
\* calls a start() gives every registered job exactly one active timer
\* again, and getStatus() reports each job's timer as active exactly when
\* the scheduler is started.
C14_StartStop ==
  /\ lastSched.op = "stop" =>
       /\ \A n \in JobNames : active[n] = 0
       /\ Len(jobs) = Len(lastSched.preJobs)
       /\ \A i \in 1..Len(jobs) :
            /\ ~jobs[i].cronJob
            /\ jobs[i] = [lastSched.preJobs[i] EXCEPT !.cronJob = FALSE]
  /\ (lastSched.op = "start" /\ ~lastSched.threw) =>
       \A i \in 1..Len(jobs) :
         /\ jobs[i].cronJob
         /\ active[jobs[i].name] = 1
  /\ lastSched.op = "getStatus" =>
       /\ lastSched.status.running = started
       /\ Len(lastSched.status.jobs) = Len(jobs)
       /\ \A i \in 1..Len(jobs) :
            /\ lastSched.status.jobs[i].name = jobs[i].name
            /\ lastSched.status.jobs[i].lastRun = jobs[i].lastRun
            /\ lastSched.status.jobs[i].running = started

\* no job was registered on a started scheduler and every schedule
\* expression parses
RegisteredBeforeStart ==
  \A i \in 1..Len(jobs) :
    /\ ValidCron(jobs[i].cronExpression)
    /\ started => jobs[i].cronJob

\* for such schedulers start(), stop() and getStatus() do what C14 says
StartStopWhenRegisteredBeforeStart ==
  RegisteredBeforeStart =>
    /\ C14_StartStop
    /\ \A n \in JobNames :
         active[n] = IF HasJob(n) /\ jobs[JobIndex(n)].cronJob THEN 1 ELSE 0
    /\ \A i \in 1..Len(jobs) : jobs[i].cronJob = started

\* start(), stop(), start() left two jobs that had run with one timer each
StartStopReached ==
  /\ lastSched.op = "start"
  /\ ~lastSched.preStarted
  /\ RegisteredBeforeStart
  /\ Len(jobs) = 2
  /\ \A i \in 1..2 : jobs[i].lastRun >= 1 /\ jobs[i].cronJob
  /\ \A n \in JobNames : active[n] = 1

\* C15: runNow(name) invokes the named job's function once immediately,
\* whether or not the scheduler is started and without touching any timer,
\* and updates the job's last-run time also when the function fails; for a
\* name that is not registered it raises and invokes nothing.
C15_RunNow ==
  lastSched.op = "runNow" =>
    /\ TimersUntouched
    /\ HadJob(lastSched.name) =>
         /\ lastSched.invoked = 1
         /\ lastSched.fn = PreJob(lastSched.name).fn
         /\ jobs[JobIndex(lastSched.name)].lastRun = now
         /\ lastSched.threw = (lastSched.outcome = "throw")
         /\ \A i \in 1..Len(jobs) :
              jobs[i].name # lastSched.name => jobs[i] = lastSched.preJobs[i]
    /\ ~HadJob(lastSched.name) =>
         /\ lastSched.threw
         /\ lastSched.invoked = 0
         /\ jobs = lastSched.preJobs

\* C15 witness: on a scheduler that is not started the function of a job
\* that had run before failed in runNow() at a later time
C15_Witness ==
  /\ lastSched.op = "runNow"
  /\ ~started
  /\ lastSched.outcome = "throw"
  /\ lastSched.threw
  /\ PreJob(lastSched.name).lastRun = 1
  /\ jobs[JobIndex(lastSched.name)].lastRun = 2

\* C15 witness of the other case: runNow() of a name that is not registered
\* while another job is
C15_WitnessUnknown ==
  /\ lastSched.op = "runNow"
  /\ ~HadJob(lastSched.name)
  /\ Len(jobs) = 1
  /\ lastSched.threw

\* a start() on a started scheduler creates no timer, and a register() on a
\* started scheduler leaves the new job without a timer, reported as not
\* running
NoTimerFromLateCalls ==
  /\ (lastSched.op = "start" /\ lastSched.preStarted) =>
       /\ active = lastSched.preActive
       /\ jobs = lastSched.preJobs
  /\ (lastSched.op = "register" /\ lastSched.preStarted /\ ~lastSched.threw) =>
       /\ active = lastSched.preActive
       /\ ~SchedulerStatus.jobs[JobIndex(lastSched.name)].running

\* C40: in every reachable state each registered job has at most one active
\* timer: start() on an already-started scheduler creates no timer, and a
\* job registered while the scheduler is started receives no timer
\* (getStatus reports it as not running) until a stop() followed by a
\* start().
C40_AtMostOneTimer ==
  /\ \A n \in JobNames : active[n] <= 1
  /\ NoTimerFromLateCalls

\* the same while every registered schedule expression parses: it holds
AtMostOneTimerWhenExpressionsParse ==
  (\A i \in 1..Len(jobs) : ValidCron(jobs[i].cronExpression))
  => C40_AtMostOneTimer

\* a start() that threw half-way was followed by a start() that gave a job
\* a second timer
SecondTimer ==
  /\ lastSched.op = "start"
  /\ ~lastSched.preStarted
  /\ \E n \in JobNames : lastSched.preActive[n] = 1 /\ active[n] = 2

\* ------------------------------------------------------------------------
\* Properties of the invocations in progress, stated for SpecOverlap
\* ------------------------------------------------------------------------

\* C35: the scheduler prevents overlapping execution of the same named job:
\* when a job's timer fires while an earlier invocation of its function has
\* not finished, the new invocation is skipped or queued, so no two
\* invocations of one job are in progress at the same time.
C35_NoOverlap == \A name \in JobNames : InFlight(name) <= 1

\* ------------------------------------------------------------------------
\* Properties of overlapping heal() invocations, stated for SpecHealSteps
\* ------------------------------------------------------------------------

\* the invocations that have been made
Invoked == {i \in 1..MaxInvocations : healPc[i].pc # "idle"}

\* C36: under every interleaving of heal() invocations, including
\* invocations that overlap at their await points, the retry count stays
\* within 0..maxRetries, and an invocation that observes retry count =
\* maxRetries starts no redeploy attempt.
C36_RetryCountInRange ==
  /\ retryCount \in 0..maxRetries
  /\ \A i \in Invoked :
       healPc[i].observed = maxRetries =>
         /\ healPc[i].attempts = 0
         /\ healPc[i].pc \in {"gaveUp", "done"}

\* C36 witness: while the first invocation awaits its second deploy, having
\* taken the last retry, a second invocation observed the limit and gave up
\* without an attempt
C36_Witness ==
  /\ maxRetries = 1
  /\ retryCount = 1
  /\ healPc[1].pc = "deployFailover"
  /\ healPc[1].attempts = 2
  /\ healPc[2].pc = "gaveUp"
  /\ healPc[2].observed = 1
  /\ healPc[2].attempts = 0

\* C36 witness: two invocations below the limit overlapped, both
\* incremented, and the one that finished first reset the count under the
\* other
C36_WitnessReset ==
  /\ maxRetries = 2
  /\ healPc[1].observed = 0
  /\ healPc[2].observed = 1
  /\ healPc[2].pc = "done"
  /\ healPc[1].pc = "deployPrimary"
  /\ retryCount = 0

\* ------------------------------------------------------------------------
\* Properties of the notifier, stated for SpecNotify
\* ------------------------------------------------------------------------

\* before call k a notification of the same priority was sent less than
\* `window` units earlier
SentWithin(k, window) ==
  \E j \in 1..(k - 1) :
    /\ notifyLog[j].priority = notifyLog[k].priority
    /\ notifyLog[j].sent
    /\ notifyLog[k].at - notifyLog[j].at < window

\* calls k and k+1 are the burst the claim speaks of: the same priority
\* within a second, with no notification of that priority sent within the
\* five minutes before
Burst(k, priority) ==
  /\ k + 1 <= Len(notifyLog)
  /\ notifyLog[k].priority = priority
  /\ notifyLog[k + 1].priority = priority
  /\ notifyLog[k + 1].at = notifyLog[k].at
  /\ ~SentWithin(k, 5 * UnitsPerMinute)

SentIn(k) ==
  Cardinality({j \in {k, k + 1} : notifyLog[j].sent})

C16_WitnessBurst ==
  /\ Len(notifyLog) >= 2
  /\ \/ Burst(1, "high") /\ SentIn(1) = 2 /\ lastNotify.delivered
     \/ Burst(1, "normal") /\ lastNotify.suppressed

\* C17: notify() never raises to its caller: a failure to encrypt, sign or
\* publish the alert is logged and the call completes normally.
C17_NotifyNeverThrows ==
  lastNotify.op = "notify" =>
    /\ ~lastNotify.threw
    /\ (~lastNotify.suppressed /\ lastNotify.fails # "none") =>
         /\ lastNotify.logged
         /\ ~lastNotify.delivered
    /\ lastNotify.suppressed => ~lastNotify.logged /\ ~lastNotify.delivered

\* C17 witness: publishing a high-priority alert failed
C17_Witness ==
  /\ lastNotify.op = "notify"
  /\ lastNotify.priority = "high"
  /\ lastNotify.fails = "publish"
  /\ lastNotify.logged
  /\ ~lastNotify.threw

\* ------------------------------------------------------------------------
\* Properties of the Akash provider, stated for SpecAkash
\* ------------------------------------------------------------------------

\* the bids of the market that are open, by their place in the enumeration
OpenPlaces == {i \in 1..Len(chainBids) : chainBids[i].state = "open"}

\* the price of the bid at place i, in tenths
PriceAt(i) == chainBids[i].amount.whole * 10 + chainBids[i].amount.tenths

\* the last deploy() selected a bid
BidSelected == lastAkash.op = "deploy" /\ lastAkash.bid # NoBid

\* the open bids in the response to query number n of the last deploy()
OpenInResponse(n) ==
  {i \in 1..Len(QueryListed(lastAkash.in, n)) :
     /\ QueryAnswer(lastAkash.in, n) = "ok"
     /\ QueryListed(lastAkash.in, n)[i].state = "open"}

\* the candidates of the selection: the open bids of the last response
Candidates == OpenInResponse(lastAkash.polls)

\* the selected bid is a candidate, of minimum price under the given
\* pricing, and the first enumerated one of that price
SelectedIsFirstMinimum(Price(_)) ==
  LET s == lastAkash.bid.provider
  IN /\ s \in Candidates
     /\ \A i \in Candidates : Price(s) <= Price(i)
     /\ \A i \in Candidates : Price(i) = Price(s) => s <= i

\* C18: for every set of candidate open bids the marketplace backend
\* selects a bid of minimum price, and among several bids of the minimum
\* price the one enumerated first, so the selection is a function of the
\* enumerated bid list.
C18_CheapestBid == BidSelected => SelectedIsFirstMinimum(PriceAt)

\* what the code compares: the prices cut off at the decimal point
ParsedPriceAt(i) == ParseIntAmount(chainBids[i].amount)

\* the selection is the first minimum of the cut-off prices: it holds
CheapestParsedBid == BidSelected => SelectedIsFirstMinimum(ParsedPriceAt)

\* for bids whose amounts are whole numbers the selection is as C18 says
CheapestBidOfWholeAmounts ==
  (BidSelected /\ \A i \in Candidates : chainBids[i].amount.tenths = 0)
  => SelectedIsFirstMinimum(PriceAt)

\* of three open bids priced 2, 1 and 1 the second was selected
CheapestBidReached ==
  /\ BidSelected
  /\ Len(chainBids) = 3
  /\ OpenPlaces = {1, 2, 3}
  /\ PriceAt(1) = 20 /\ PriceAt(2) = 10 /\ PriceAt(3) = 10
  /\ lastAkash.bid.provider = 2

\* the number of queries that start before the deadline when each takes d
PollsBeforeDeadline(d) == (BidWait + d + BidPoll - 1) \div (d + BidPoll)

\* C39: bid collection stops at the first poll whose response contains at
\* least one open bid and the winner is the cheapest bid of that response
\* only: a cheaper bid that first appears in a later poll before the
\* deadline is never selected, and no further bid query is made once a bid
\* was selected.
C39_FirstResponseOnly ==
  BidSelected =>
    /\ Candidates # {}
    /\ \A n \in 1..(lastAkash.polls - 1) : OpenInResponse(n) = {}
    /\ lastAkash.bid.provider \in Candidates
    /\ \A i \in Candidates : PriceAt(lastAkash.bid.provider) <= PriceAt(i)

\* the same with the prices the code compares: the last query made is the
\* first one with an open bid in its response, and the winner is the first
\* minimum of that response. It holds
FirstResponseOnlyParsed ==
  BidSelected =>
    /\ Candidates # {}
    /\ \A n \in 1..(lastAkash.polls - 1) : OpenInResponse(n) = {}
    /\ SelectedIsFirstMinimum(ParsedPriceAt)

\* the first response listed one open bid, the next query would have listed
\* a cheaper one before the deadline, and the first one was selected
LaterCheaperBidPassedOver ==
  /\ BidSelected
  /\ lastAkash.in.trickle
  /\ lastAkash.bid.provider = 1
  /\ lastAkash.polls = lastAkash.in.arrive
  /\ lastAkash.polls < PollsBeforeDeadline(lastAkash.in.fetchTime)
  /\ \E i \in OpenPlaces : PriceAt(i) < PriceAt(1)

\* the create-deployment transaction succeeded and no query that started
\* before the deadline returned an open bid
NoBidInTime ==
  /\ lastAkash.op = "deploy"
  /\ lastAkash.in.createTx = "ok"
  /\ \A n \in 1..PollsBeforeDeadline(lastAkash.in.fetchTime) :
       OpenInResponse(n) = {}

\* C19: if no open bid is returned by any poll before the bid deadline
\* (failed or non-OK queries counting as no bids), deploy() terminates
\* after a bounded number of polls, returns without throwing a deployment
\* whose status is failed with a descriptive error in its metadata, submits
\* no lease transaction, and does not restart bidding within the same call.
C19_NoBidsFails ==
  NoBidInTime =>
    /\ ~lastAkash.threw
    /\ lastAkash.status = "failed"
    /\ lastAkash.error = "No bids received within timeout"
    /\ lastAkash.polls = PollsBeforeDeadline(lastAkash.in.fetchTime)
    /\ lastAkash.polls \in 1..(BidWait \div BidPoll)
    /\ lastAkash.elapsed < BidWait + FetchTimeout + BidPoll
    /\ lastAkash.txs = <<[msg |-> "MsgCreateDeployment", outcome |-> "ok"]>>
    /\ lastAkash.phases = <<"SUBMITTING", "AWAITING_BIDS", "FAILED">>
    /\ lastAkash.puts = <<>>

\* C19 witness: open bids were listed only after the deadline, every
\* earlier query failed, and six queries were made
C19_Witness ==
  /\ NoBidInTime
  /\ OpenPlaces # {}
  /\ lastAkash.in.emptyKind = "throw"
  /\ lastAkash.in.fetchTime = 0
  /\ lastAkash.polls = 6
  /\ lastAkash.status = "failed"

\* the last deploy() returned a deployment with status failed because no
\* bid arrived
FailedForNoBid ==
  /\ lastAkash.op = "deploy"
  /\ ~lastAkash.threw
  /\ lastAkash.status = "failed"
  /\ lastAkash.error = "No bids received within timeout"

\* C38: when marketplace deploy() ends with status failed because no bid
\* arrived, it submits no close-deployment transaction: the order created
\* by the create-deployment transaction and its escrow deposit stay open.
\* (That no later destroy() or failover() of the manager closes the order
\* is FailedNeverRecorded and DestroyOnlyRecorded, stated for Spec.)
C38_OrderStaysOpen ==
  FailedForNoBid =>
    /\ lastAkash.txs[1] = [msg |-> "MsgCreateDeployment", outcome |-> "ok"]
    /\ \A k \in 1..Len(lastAkash.txs) :
         lastAkash.txs[k].msg # "MsgCloseDeployment"
    /\ lastAkash.metadata.dseq = "Date.now()"

\* C38 witness: every query listed the market's bids, none of them open,
\* until the deadline passed
C38_Witness ==
  /\ FailedForNoBid
  /\ Len(chainBids) > 0
  /\ OpenPlaces = {}
  /\ lastAkash.in.arrive = 1
  /\ lastAkash.polls = PollsBeforeDeadline(lastAkash.in.fetchTime)

\* C20: each deploy() follows SUBMITTING -> AWAITING_BIDS -> LEASING ->
\* MANIFEST_PUSH -> RUNNING in that order: a deployment is returned with
\* status running only after the create-deployment transaction succeeded,
\* an open bid was selected, the create-lease transaction for that bid
\* succeeded and the rendered manifest was PUT to the winning provider's
\* resolved service endpoint; FAILED is reachable only from bid waiting or
\* from a failing network-call step.
C20_DeployOrder ==
  /\ lastAkash.op = "deploy" =>
       \/ lastAkash.phases \in
            {SubSeq(<<"SUBMITTING", "AWAITING_BIDS", "LEASING", "MANIFEST_PUSH",
                      "RUNNING">>, 1, k) : k \in 1..5}
       \/ lastAkash.phases = <<"SUBMITTING", "AWAITING_BIDS", "FAILED">>
  /\ (lastAkash.op = "deploy" /\ lastAkash.status = "running") =>
       /\ lastAkash.txs =
            <<[msg |-> "MsgCreateDeployment", outcome |-> "ok"],
              [msg |-> "MsgCreateLease", outcome |-> "ok",
               provider |-> lastAkash.bid.provider]>>
       /\ lastAkash.bid.provider \in OpenPlaces
       /\ Len(lastAkash.puts) = 1
       /\ lastAkash.puts[1].url # ""
       /\ lastAkash.puts[1].answer = "ok"
  /\ (lastAkash.op = "deploy" /\ lastAkash.status = "failed") =>
       /\ lastAkash.phases = <<"SUBMITTING", "AWAITING_BIDS", "FAILED">>
       /\ lastAkash.bid = NoBid

\* the order of the transactions alone, without the manifest: it holds
DeployOrderOfTransactions ==
  /\ (lastAkash.op = "deploy" /\ lastAkash.status = "running") =>
       /\ lastAkash.phases = <<"SUBMITTING", "AWAITING_BIDS", "LEASING",
                               "MANIFEST_PUSH", "RUNNING">>
       /\ Len(lastAkash.txs) = 2
       /\ lastAkash.txs[2].provider = lastAkash.bid.provider
       /\ lastAkash.bid.provider \in OpenPlaces
       /\ lastAkash.in.createTx = "ok" /\ lastAkash.in.leaseTx = "ok"
  /\ (lastAkash.op = "deploy" /\ lastAkash.threw) =>
       /\ lastAkash.status = "none"
       /\ lastAkash.txs[Len(lastAkash.txs)].outcome # "ok"

\* a deployment came back running without any manifest having been sent
RunningWithoutManifest ==
  /\ lastAkash.op = "deploy"
  /\ lastAkash.status = "running"
  /\ lastAkash.puts = <<>>
  /\ lastAkash.metadata.providerUri = ""

\* the metadata keys a later healthCheck() or getLogs() reads, and the lease
\* transaction id
MetadataKeys == {"dseq", "providerUri", "gseq", "oseq", "leaseTxHash"}

\* the key is in the metadata with a non-empty value
Present(md, key) == md[key] \notin {"absent", "", "none"}

\* C21: every deployment that the marketplace deploy() returns with status
\* running carries in its metadata the winning provider's endpoint, the
\* sequence numbers dseq, gseq and oseq and the lease transaction id, each
\* present and non-empty.
C21_RunningMetadata ==
  (lastAkash.op = "deploy" /\ lastAkash.status = "running") =>
    \A key \in MetadataKeys : Present(lastAkash.metadata, key)

\* all of them but the provider's endpoint are present: it holds
RunningMetadataButEndpoint ==
  (lastAkash.op = "deploy" /\ lastAkash.status = "running") =>
    /\ \A key \in MetadataKeys \ {"providerUri"} : Present(lastAkash.metadata, key)
    /\ lastAkash.metadata.providerAddress = lastAkash.bid.provider

\* the transactions of the given type that the last deploy() submitted
Submitted(msg) == {i \in 1..Len(lastAkash.txs) : lastAkash.txs[i].msg = msg}

\* C22: within one marketplace deploy() nothing is retried: at most one
\* create-deployment and at most one create-lease transaction are
\* submitted, and a rejected broadcast or a non-zero result code at either
\* step ends the call with an exception.
C22_NoRetry ==
  lastAkash.op = "deploy" =>
    /\ Cardinality(Submitted("MsgCreateDeployment")) <= 1
    /\ Cardinality(Submitted("MsgCreateLease")) <= 1
    /\ \A i \in 1..Len(lastAkash.txs) :
         lastAkash.txs[i].outcome # "ok" =>
           /\ i = Len(lastAkash.txs)
           /\ lastAkash.threw
           /\ lastAkash.status = "none"
           /\ lastAkash.puts = <<>>

\* C22 witness: the create-lease transaction came back with a non-zero code
\* after bids had been polled for, and the call threw
C22_Witness ==
  /\ lastAkash.op = "deploy"
  /\ Len(lastAkash.txs) = 2
  /\ lastAkash.txs[2].outcome = "code"
  /\ lastAkash.polls > 1
  /\ lastAkash.threw

\* C22 witness: the create-deployment broadcast was rejected
C22_WitnessRejected ==
  /\ lastAkash.op = "deploy"
  /\ lastAkash.txs = <<[msg |-> "MsgCreateDeployment", outcome |-> "rejected"]>>
  /\ lastAkash.threw

\* ------------------------------------------------------------------------
\* The frame of the ProviderManager's operations, stated for Spec
\* ------------------------------------------------------------------------

\* the operations of the manager other than deploy() and failover()
OtherOps == {"getCurrentProvider", "getDeployment", "getStatus", "healthCheck",
             "destroy"}

\* the last call left the active index and the active deployment as they
\* were
PairUnchanged ==
  /\ activeIndex = lastOp.preIndex
  /\ currentDeployment = lastOp.preDeployment

\* C28: the active index / active deployment pair is mutated only by
\* deploy() and failover(): getCurrentProvider, getDeployment, getStatus,
\* healthCheck and destroy leave both unchanged.
C28_Frame == lastOp.op \in OtherOps => PairUnchanged

\* C28 as amended: getCurrentProvider, getDeployment, getStatus and
\* healthCheck leave the pair unchanged; destroy() leaves the active index
\* unchanged and clears the active deployment exactly when the provider's
\* destroy() did not throw.
FrameButDestroy ==
  /\ lastOp.op \in OtherOps \ {"destroy"} => PairUnchanged
  /\ lastOp.op = "destroy" =>
       /\ activeIndex = lastOp.preIndex
       /\ currentDeployment =
            (IF lastOp.ok THEN NoDeployment ELSE lastOp.preDeployment)

\* destroy() cleared the deployment of a provider that a failover had made
\* the active one
DestroyClearedDeployment ==
  /\ lastOp.op = "destroy"
  /\ lastOp.ok
  /\ lastOp.preIndex > 0
  /\ lastOp.preDeployment # NoDeployment
  /\ currentDeployment = NoDeployment

\* the manager records only deployments that came back running: a
\* deployment returned with status failed is never the current one
FailedNeverRecorded ==
  currentDeployment # NoDeployment => currentDeployment.status = "running"

\* every provider.destroy() a manager call makes is given the deployment
\* that was recorded before the call, on the provider that created it
DestroyOnlyRecorded ==
  \A k \in 1..Len(lastOp.calls) :
    lastOp.calls[k].op = "destroy" =>
      /\ lastOp.preDeployment # NoDeployment
      /\ lastOp.preDeployment.status = "running"
      /\ lastOp.calls[k].provider = lastOp.preDeployment.creator
      /\ \A m \in 1..Len(lastOp.calls) : lastOp.calls[m].op = "destroy" => m = k

\* a deploy() got a failed deployment from one provider and recorded the
\* running one of the next
FailedPassedOver ==
  /\ lastOp.op = "deploy"
  /\ lastOp.ok
  /\ Len(lastOp.calls) = 2
  /\ lastOp.calls[1].outcome = "failed"
  /\ currentDeployment.creator = lastOp.calls[2].provider

\* the last call was a failover() that tried its candidates in vain
FailoverExhausted ==
  /\ lastOp.op = "failover"
  /\ lastOp.error.kind = "Failover exhausted all providers"

\* C37: a failover() that exhausts its candidates raises with the active
\* index and the current deployment record unchanged, although the teardown
\* step has already called destroy on the recorded deployment; with exactly
\* one provider failover() makes no deploy attempt at all, so it destroys
\* the only deployment and then raises.
C37_FailoverExhaustedFrame ==
  /\ FailoverExhausted =>
       /\ ~lastOp.ok
       /\ activeIndex = lastOp.preIndex
       /\ currentDeployment = lastOp.preDeployment
       /\ currentDeployment # NoDeployment
       /\ Len(DestroyCalls) = 1
       /\ lastOp.calls[1].op = "destroy"
       /\ lastOp.calls[1].provider = providers[lastOp.preIndex + 1]
       /\ \A j \in 1..Len(DeployCalls) : DeployCalls[j].outcome # "running"
  /\ (/\ lastOp.op = "failover"
      /\ lastOp.preDeployment # NoDeployment
      /\ Len(providers) = 1)
     => /\ FailoverExhausted
        /\ DeployCalls = <<>>
        /\ Len(DestroyCalls) = 1

\* C37 witness: the only provider's deployment was destroyed by a failover
\* that then raised, and the manager still records it
C37_Witness ==
  /\ FailoverExhausted
  /\ Len(providers) = 1
  /\ lastOp.calls = <<Call("destroy", providers[1], currentDeployment.config, "done")>>
  /\ currentDeployment.status = "running"
  /\ lastOp.error.last = "unknown"

\* C37 witness: both candidates of a manager of three providers failed
\* after the teardown, and the active index still points at the second
C37_WitnessCandidates ==
  /\ FailoverExhausted
  /\ Len(providers) = 3
  /\ activeIndex = 1
  /\ Len(DeployCalls) = 2
  /\ lastOp.calls[1].op = "destroy"
  /\ currentDeployment.creator = providers[2]

\* ------------------------------------------------------------------------
\* Properties of the provider calls on a held deployment, stated for
\* SpecBackend
\* ------------------------------------------------------------------------

\* the last call was the marketplace destroy() on a deployment with a dseq
AkashDestroyed ==
  /\ lastProv.op = "destroy"
  /\ held.provider = "akash"
  /\ ~Falsy(held.metadata.dseq)

\* the transactions of the given type that the last call submitted
Closing(msg) == {i \in 1..Len(lastProv.txs) : lastProv.txs[i].msg = msg}

\* C23: the marketplace destroy() first tries to close the lease and
\* swallows any error of that step, then always submits the
\* close-deployment transaction, whose failure is raised to the caller; a
\* failing lease close never prevents the deployment close from being
\* attempted.
C23_LeaseCloseSwallowed ==
  AkashDestroyed =>
    /\ Closing("MsgCloseDeployment") # {}
    /\ lastProv.threw =
         (\E i \in Closing("MsgCloseDeployment") : lastProv.txs[i].outcome # "ok")

\* the order of the two transactions and the raising of a failing
\* close-deployment are as C23 says when the lease close succeeds or is
\* skipped: it holds
DestroyOrderWhenLeaseCloses ==
  (AkashDestroyed /\ \A i \in Closing("MsgCloseLease") : lastProv.txs[i].outcome = "ok")
  => /\ Closing("MsgCloseDeployment") = {Len(lastProv.txs)}
     /\ Closing("MsgCloseLease") \subseteq {1}
     /\ lastProv.threw = (lastProv.txs[Len(lastProv.txs)].outcome # "ok")

\* the close-lease transaction failed and no close-deployment transaction
\* was submitted
LeaseCloseFailureEndsDestroy ==
  /\ AkashDestroyed
  /\ Len(lastProv.txs) = 1
  /\ lastProv.txs[1].msg = "MsgCloseLease"
  /\ lastProv.txs[1].outcome # "ok"
  /\ lastProv.threw
  /\ remote.deployment = "open"

\* the deployment is gone: lease and deployment closed on the chain, or the
\* container absent from the host
Gone(rem) ==
  \/ rem.lease = "closed" /\ rem.deployment = "closed"
  \/ rem.container = "absent"

\* C24: destroy(deployment) is idempotent on both backends: called on a
\* deployment that is already gone it does not raise, and it ends in the
\* state a single destroy ends in.
C24_DestroyIdempotent ==
  (lastProv.op = "destroy" /\ Gone(lastProv.preRemote)) =>
    /\ ~lastProv.threw
    /\ remote = lastProv.preRemote

\* the second destroy() leaves what is outside as it was: it holds
SecondDestroyChangesNothing ==
  (lastProv.op = "destroy" /\ Gone(lastProv.preRemote)) =>
    remote = lastProv.preRemote

\* destroy() of a container that an earlier destroy() removed raised
SecondDestroyRaised ==
  /\ lastProv.op = "destroy"
  /\ held.provider = "self-hosted"
  /\ lastProv.preRemote.container = "absent"
  /\ lastProv.threw

\* nothing could be asked, or the one asked did not answer in time
NoAnswer ==
  \/ lastProv.requests = <<>>
  \/ lastProv.answer \in {"unreachable", "timeout"}

\* C25: status() and healthCheck() of both backends never raise when the
\* chain endpoint, the provider endpoint or the remote host is missing,
\* unreachable or times out: status() then yields unknown and healthCheck()
\* a result with healthy = false.
C25_QueriesNeverRaise ==
  /\ lastProv.op \in {"status", "healthCheck"} => ~lastProv.threw
  /\ (lastProv.op = "status" /\ NoAnswer) => lastProv.value = "unknown"
  /\ (lastProv.op = "healthCheck" /\ NoAnswer) => lastProv.value = "unhealthy"

\* C25 witness: the lease query of the marketplace status() timed out
C25_Witness ==
  /\ lastProv.op = "status"
  /\ held.provider = "akash"
  /\ lastProv.requests # <<>>
  /\ lastProv.answer = "timeout"
  /\ lastProv.value = "unknown"

\* C25 witness: the host of the direct-host healthCheck() was unreachable
C25_WitnessHost ==
  /\ lastProv.op = "healthCheck"
  /\ held.provider = "self-hosted"
  /\ lastProv.answer = "unreachable"
  /\ lastProv.value = "unhealthy"

\* the metadata keys the provider reads during the call
NeededKeys(provider, op) ==
  CASE provider = "self-hosted" -> {"containerName"}
    [] provider = "akash" /\ op \in {"healthCheck", "getLogs"} ->
         {"providerUri", "dseq", "gseq", "oseq"}
    [] provider = "akash" /\ op = "destroy" ->
         {"dseq", "providerAddress", "gseq", "oseq"}
    [] OTHER -> {}

\* the last call was made on a deployment whose metadata lacks a key that
\* the call reads
KeyMissing ==
  /\ lastProv.op # "idle"
  /\ \E key \in NeededKeys(held.provider, lastProv.op) :
       held.metadata[key] = Absent

\* C26: for every provider operation on an existing deployment (status,
\* healthCheck, destroy, getLogs) a metadata map that lacks a key the
\* provider needs for the call is a fatal precondition failure: no default
\* is substituted and the call never silently does nothing.
C26_MissingKeyFatal == KeyMissing => lastProv.threw

\* the one key whose absence is fatal is the dseq in the marketplace
\* destroy(): it holds
MissingDseqFatal ==
  (lastProv.op = "destroy" /\ held.provider = "akash"
     /\ held.metadata.dseq = Absent)
  => lastProv.threw /\ lastProv.txs = <<>>

\* the marketplace destroy() closed a lease under the default sequence
\* numbers, which the metadata did not hold
DefaultSubstituted ==
  /\ lastProv.op = "destroy"
  /\ held.metadata.gseq = Absent
  /\ lastProv.txs # <<>>
  /\ lastProv.txs[1].msg = "MsgCloseLease"
  /\ lastProv.txs[1].gseq = "1"
  /\ ~lastProv.threw

\* the direct-host destroy() returned without doing anything
SilentlyNothing ==
  /\ lastProv.op = "destroy"
  /\ held.provider = "self-hosted"
  /\ held.metadata.containerName = Absent
  /\ lastProv.requests = <<>>
  /\ ~lastProv.threw
  /\ remote.container = "present"

\* ------------------------------------------------------------------------
\* Properties of the deploy attempts, stated for SpecCreate
\* ------------------------------------------------------------------------

\* the attempts on the marketplace backend
MarketAttempts == {i \in 1..Len(issued) : issued[i].backend = "akash"}

\* the content hash of a manifest text: a digest that differs for different
\* texts and is never all zeros
ContentHash(sdl) == [zero |-> FALSE, of |-> {sdl}]

\* C27: the version sent in the create-deployment transaction is the
\* content hash of the rendered manifest: it is the same for every deploy
\* of the same config, depends only on the config, and two configs that
\* render different manifests get different versions.
C27_VersionIsContentHash ==
  /\ \A i \in MarketAttempts :
       issued[i].msg.version = ContentHash(generateSDL(issued[i].config))
  /\ \A i, j \in MarketAttempts :
       issued[i].config = issued[j].config
         => issued[i].msg.version = issued[j].msg.version
  /\ \A i, j \in MarketAttempts :
       generateSDL(issued[i].config) # generateSDL(issued[j].config)
         => issued[i].msg.version # issued[j].msg.version

\* the version is the same for every deploy of the same config, whatever
\* the sequence number and the clock: it holds
VersionSameForSameConfig ==
  \A i, j \in MarketAttempts :
    issued[i].config = issued[j].config
      => issued[i].msg.version = issued[j].msg.version

\* two configs that render different manifests were sent with the same
\* version
SameVersionForDifferentManifests ==
  \E i, j \in MarketAttempts :
    /\ generateSDL(issued[i].config) # generateSDL(issued[j].config)
    /\ issued[i].msg.version = issued[j].msg.version

\* C29: every deploy() attempt uses an identifier that no other attempt of
\* the same backend uses (dseq on the marketplace, the container name on
\* the direct host), also when two attempts start at the same clock
\* reading.
C29_UniqueIdentifiers ==
  \A i, j \in 1..Len(issued) :
    (i # j /\ issued[i].backend = issued[j].backend)
      => issued[i].id # issued[j].id

\* attempts of one backend at different clock readings use different
\* identifiers: it holds
UniqueWhenClockDiffers ==
  \A i, j \in 1..Len(issued) :
    (issued[i].backend = issued[j].backend /\ issued[i].at # issued[j].at)
      => issued[i].id # issued[j].id

\* two attempts of the marketplace backend in the same millisecond used the
\* same dseq
SameDseqTwice ==
  \E i, j \in MarketAttempts :
    i # j /\ issued[i].at = issued[j].at /\ issued[i].id = issued[j].id

\* ------------------------------------------------------------------------
\* Properties of the storage, stated for SpecStore
\* ------------------------------------------------------------------------

\* a set() call on a storage with relay backing has just returned
SetReturned == hasRelay /\ lastSet.op = "set" /\ ~lastSet.threw

\* C30: Storage.set(key, value) is durable on its remote leg before it
\* returns: in every state in which a set call on the cached storage has
\* returned, the relay store holds the value written by that call.
C30_DurableOnReturn == SetReturned => relayStore[lastSet.key] = lastSet.value

\* when set() returns the local cache holds the value: it holds
CachedOnReturn == SetReturned => cacheStore[lastSet.key] = lastSet.value

\* set() has returned while the relays hold nothing for the key and the
\* write is still in flight
ReturnedBeforeRelayWrite ==
  /\ SetReturned
  /\ relayStore[lastSet.key] = Null
  /\ relayWrites = <<[key |-> lastSet.key, value |-> lastSet.value]>>

\* set() has returned, the relay write has failed, and the relays hold
\* nothing for the key
RelayWriteLost ==
  /\ SetReturned
  /\ relayStore[lastSet.key] = Null
  /\ relayWrites = <<>>

\* this step is a sync() that completes on a storage with relay backing
SyncStep ==
  /\ hasRelay
  /\ lastSet = NoSet
  /\ lastSet'.op = "sync"
  /\ ~lastSet'.threw

\* C31: after a sync from the relays completes, every entry stored on the
\* relay side under any storage key 'type:subkey' is present in the local
\* cache under the same key with the relay's value, and repeating the sync
\* against unchanged relay state changes nothing.
C31_SyncPullsRelay ==
  [][SyncStep =>
       /\ \A k \in StorageKeys :
            relayStore[k] # Null => cacheStore'[k] = relayStore[k]
       /\ CacheAfterSync' = cacheStore']_vars

\* what sync() does pull: the entries whose type part is empty; the other
\* keys of the cache are left as they were, and a second sync changes nothing
SyncPullsEmptyType ==
  [][SyncStep =>
       /\ \A k \in StorageKeys :
            cacheStore'[k] =
              (IF relayStore[k] # Null /\ parseKey(k).type = ""
               THEN relayStore[k] ELSE cacheStore[k])
       /\ CacheAfterSync' = cacheStore']_vars

\* a sync() completed and the cache has nothing under 'state:last-heartbeat',
\* which the relays hold
SyncMissedEntry ==
  /\ hasRelay
  /\ lastSet.op = "sync"
  /\ ~lastSet.threw
  /\ relayStore[<<"state", "last-heartbeat">>] = "v1"
  /\ cacheStore[<<"state", "last-heartbeat">>] = Null
  /\ cacheStore[<<"", "note">>] = "v2"

\* ------------------------------------------------------------------------
\* Further properties of the self-healer, stated for SpecHeal
\* ------------------------------------------------------------------------

\* the deploy of attempt i of the last heal() returned status failed
ReturnedFailed(i) ==
  /\ i \in 1..Len(lastRun.attempts)
  /\ lastRun.attempts[i].outcome = "failed"

\* the last heal() had a provider left to try after attempt i
ProviderLeft(i) ==
  \/ lastRun.attempts[i].stage = "primary" /\ ~lastRun.in.allThrows
  \/ /\ lastRun.attempts[i].stage = "failover"
     /\ lastRun.attempts[i].provider < MaxHealProviders

\* C33: heal() counts a redeploy as successful only if deploy() returned a
\* deployment whose status is not failed: after a deploy() that returned
\* status failed the healer goes on to the next provider, and that deploy is
\* no reason to reset the retry count or to send a 'self-healed'
\* notification.
C33_FailedDeployIsFailure ==
  HealerRan =>
    \A i \in 1..Len(lastRun.attempts) :
      ReturnedFailed(i) =>
        /\ ProviderLeft(i) => Len(lastRun.attempts) > i
        /\ i = Len(lastRun.attempts) =>
             /\ retryCount = lastRun.preRetry + 1
             /\ \A n \in 1..Len(lastRun.notifs) :
                  lastRun.notifs[n].kind = "attempt failed"

\* ------------------------------------------------------------------------
\* Properties of the heartbeat next to a ProviderManager, stated for
\* SpecWired
\* ------------------------------------------------------------------------

\* the provider whose deploy() ended the last heal()
Redeployer == lastRun.attempts[Len(lastRun.attempts)].provider

\* this step is a heal() in which a redeploy came up running
HealedStep ==
  /\ lastRun = NoRun
  /\ HealerRan'
  /\ CameUpRunning(lastRun')

\* C32: after a heal() in which a redeploy succeeded, the ProviderManager's
\* active provider is the provider that redeployed and its active deployment
\* is the deployment created by that redeploy, not the one the manager held
\* before.
C32_HealUpdatesManager ==
  [][HealedStep =>
       /\ currentDeployment' # currentDeployment
       /\ currentDeployment' # NoDeployment
       /\ getCurrentProvider' = Redeployer']_vars

\* the manager holds an active provider and an active deployment
ManagerHoldsPair ==
  /\ getCurrentProvider # 0
  /\ currentDeployment # NoDeployment

\* the last tick made no health check, left the counter alone and did not
\* invoke heal()
TickWasNoOp ==
  /\ lastRun.probe = "skipped"
  /\ consecutiveFailures = lastRun.preFailures
  /\ lastRun.healCalls = 0

\* C34: each tick of the health monitor probes the ProviderManager's active
\* provider and active deployment (the pair last set by deploy()/failover());
\* if either is absent the tick is a no-op: no health check, the
\* consecutive-failure counter unchanged, no heal().
C34_TickProbesActivePair ==
  lastRun.op = "tick" =>
    /\ ManagerHoldsPair => lastRun.probe # "skipped"
    /\ ~ManagerHoldsPair => TickWasNoOp

====
